---- MODULE Spec2Model ----
(***************************************************************************)
(* A model of the widgets of malopezo/malva-II: the logo preloader, the    *)
(* infinite gallery, the minimal video player and the ambient-glow video   *)
(* player.  Every widget is a React function component; its state is the   *)
(* useState/useRef cells of one mounted instance, its operations are the   *)
(* effect bodies, effect cleanups, timer callbacks, animation-frame        *)
(* callbacks and DOM event handlers of the source.                         *)
(*                                                                         *)
(* Each widget has its own specification (SpecLogo, SpecGallery, ...); the *)
(* variables of the other widgets stay at their dormant values.            *)
(***************************************************************************)
EXTENDS Integers, Sequences, FiniteSets, TLC

VARIABLES
    \* ---- LogoPreloader (src/unnamed/part_000, lines 11-128) ----
    lpMounted,      \* the instance is mounted
    lpStatic,       \* useIsStaticRenderer()
    lpDuration,     \* the duration prop, in milliseconds (duration * 1000)
    lpPhase,        \* useState("init")
    lpTimers,       \* pending setTimeout entries: [id, at, phase, run]
    lpHandles,      \* <<t0, t1, t2>> captured by the last effect run's cleanup, or << >>
    lpNextId,       \* next timer id handed out by setTimeout
    lpRun,          \* number of the effect run that is current
    lpNow           \* the clock, in milliseconds

logoVars == <<lpMounted, lpStatic, lpDuration, lpPhase, lpTimers, lpHandles,
              lpNextId, lpRun, lpNow>>

VARIABLES
    \* ---- PhantomInfiniteGallery (src/unnamed/part_000, lines 395-1040) ----
    mounted,              \* the instance is mounted
    props,                \* the props of the instance (fixed while it is mounted)
    \* useState cells
    offset, targetOffset, isDragging, currentCellSize, mouseOffset,
    targetMouseOffset, targetCellSize, inertia,
    \* useRef cells
    inertiaRef, velocityRef, lastMoveRef, inertiaActiveRef, isPressingRef, draggingRef,
    offsetRef, targetOffsetRef, targetMouseOffsetRef, pressPosRef,
    startOffsetRef, pressTimerRef,
    \* values captured by the closures of the last render
    renderedIsDragging,       \* isDragging as seen by handlePointerMove and the draggingRef effect
    renderedCurrentCellSize,  \* currentCellSize as seen by the pointer handlers
    renderedTargetCellSize,   \* targetCellSize as seen by tick in the current loop effect run
    \* the animation-frame loop and the timers
    rafPending,           \* pending requestAnimationFrame callbacks: [id, target, live]
    raf,                  \* the variable raf of the current run of the loop effect
    pressTimers,          \* pending window.setTimeout callbacks: [id, size]
    lastEvent,            \* the handler or callback that ran last
    tickDt,               \* dt * 60 of tick when it ran last, 0 after the other handlers
    pointersDown,         \* how many pointers are down on the container
    budget                \* how many more frames and pointer events the model takes

galState == <<offset, targetOffset, isDragging, currentCellSize, mouseOffset,
              targetMouseOffset, targetCellSize, inertia>>
galRefs == <<inertiaRef, velocityRef, lastMoveRef, inertiaActiveRef, isPressingRef, draggingRef,
             offsetRef, targetOffsetRef, targetMouseOffsetRef, pressPosRef,
             startOffsetRef, pressTimerRef>>
galRendered == <<renderedIsDragging, renderedCurrentCellSize, renderedTargetCellSize>>
galVars == <<mounted, props, galState, galRefs, galRendered, rafPending, raf,
             pressTimers, lastEvent, tickDt, pointersDown, budget>>

VARIABLES
    \* ---- computePinnedOffset (src/unnamed/part_000, lines 331-343) ----
    pinPrevSize,    \* the argument prevSize of the first call
    pinNextSize,    \* the argument nextSize of the first call
    pinPivot,       \* the argument pivot of both calls
    pinPrevOffset,  \* the argument prevOffset of the first call
    pinOffset,      \* the offset held now: prevOffset, then the results
    pinCalls        \* calls made so far: 0, 1 (pinned) or 2 (pinned back)

pinVars == <<pinPrevSize, pinNextSize, pinPivot, pinPrevOffset, pinOffset, pinCalls>>

VARIABLES
    \* ---- MinimalVideoPlayer (src/unnamed/part_002, lines 46-420) ----
    vpMounted,          \* the instance is mounted
    vpProps,            \* [autoPlay, autoPlayDelay, showPoster, isStatic]
    vpIsPlaying,        \* useState(autoPlay)
    vpShowPlayButton,   \* useState(!autoPlay)
    vpHasPlayedOnce,    \* useState(autoPlay)
    vpShowPosterImage,  \* useState(showPoster)
    vpListening,        \* the six media listeners are attached
    vpAutoTimer,        \* the autoplay setTimeout is pending
    vpHideTimers,       \* pending 50 ms poster-hide timers started by handleReady
    vpPromises,         \* play() promises not settled yet, each with its catch handler
    vpMedia,            \* the media element: "paused", "starting", "playing", "error"
    vpFailed,           \* starting playback failed and no playing event came since
    vpLast,             \* the handler or callback that ran last
    vpIsHovered,        \* useState(false)
    vpCurrentTime,      \* useState(0)
    vpDuration,         \* useState(0)
    vpMediaTime         \* video.currentTime of the media element

vpSeek == <<vpIsHovered, vpCurrentTime, vpDuration, vpMediaTime>>

vpVars == <<vpMounted, vpProps, vpIsPlaying, vpShowPlayButton, vpHasPlayedOnce,
            vpShowPosterImage, vpListening, vpAutoTimer, vpHideTimers, vpPromises,
            vpMedia, vpFailed, vpLast, vpSeek>>

VARIABLES
    \* ---- AmbilightVideo (src/AmbiLight.tsx) ----
    ytApiLoading,   \* window._ytApiLoading
    ytReady,        \* window.YT && window.YT.Player
    ytScripts,      \* iframe_api script tags appended to document.head
    amb,            \* per instance: [mounted, youtube, target, polling, player, isPlaying]
    ambMounts       \* mounts made so far

ambVars == <<ytApiLoading, ytReady, ytScripts, amb, ambMounts>>

\* AmbilightVideo with a file source: the main and the glow video elements.
VARIABLES
    syMounted,       \* the instance is mounted and its sync effect has run
    mainVideo,       \* videoRef.current: [currentTime, paused]
    glowVideo,       \* glowVideoRef.current: [currentTime, paused]
    syIsPlaying,     \* the isPlaying state of the instance
    syPromises,      \* pending promises returned by the glow's play()
    syAsked,         \* the last callback called the glow's play()
    syErrors,        \* errors and unhandled rejections raised so far
    syLast           \* the last callback that ran

syncVars == <<syMounted, mainVideo, glowVideo, syIsPlaying, syPromises, syAsked,
              syErrors, syLast>>

\* Clock (src/unnamed/part_003).
VARIABLES
    ckMounted,       \* the clock is mounted
    ckOnCanvas,      \* useIsOnFramerCanvas()
    ckNow,           \* the now state: the displayed time, in seconds
    ckInterval,      \* the 1 s interval is running
    ckWall           \* the wall clock, in seconds

clockVars == <<ckMounted, ckOnCanvas, ckNow, ckInterval, ckWall>>

vars == <<logoVars, galVars, pinVars, vpVars, ambVars, syncVars, clockVars>>

notLogo == <<galVars, pinVars, vpVars, ambVars, syncVars, clockVars>>
notGallery == <<logoVars, pinVars, vpVars, ambVars, syncVars, clockVars>>
notPinned == <<logoVars, galVars, vpVars, ambVars, syncVars, clockVars>>
notVideo == <<logoVars, galVars, pinVars, ambVars, syncVars, clockVars>>
notAmbi == <<logoVars, galVars, pinVars, vpVars, syncVars, clockVars>>
notSync == <<logoVars, galVars, pinVars, vpVars, ambVars, clockVars>>
notClock == <<logoVars, galVars, pinVars, vpVars, ambVars, syncVars>>

(***************************************************************************)
(* The dormant values of the widgets that take no part in a behaviour.     *)
(***************************************************************************)
\* No gallery is part of the behaviour.
GalOff ==
    /\ mounted = FALSE
    /\ props = << >>
    /\ offset = [x |-> 0, y |-> 0] /\ targetOffset = [x |-> 0, y |-> 0] /\ isDragging = FALSE
    /\ currentCellSize = 0 /\ mouseOffset = [x |-> 0, y |-> 0] /\ targetMouseOffset = [x |-> 0, y |-> 0]
    /\ targetCellSize = 0 /\ inertia = [x |-> 0, y |-> 0]
    /\ inertiaRef = [x |-> 0, y |-> 0] /\ velocityRef = [x |-> 0, y |-> 0] /\ lastMoveRef = [x |-> 0, y |-> 0]
    /\ inertiaActiveRef = FALSE /\ isPressingRef = FALSE /\ draggingRef = FALSE
    /\ offsetRef = [x |-> 0, y |-> 0] /\ targetOffsetRef = [x |-> 0, y |-> 0] /\ targetMouseOffsetRef = [x |-> 0, y |-> 0]
    /\ pressPosRef = [x |-> 0, y |-> 0] /\ startOffsetRef = [x |-> 0, y |-> 0] /\ pressTimerRef = 0
    /\ renderedIsDragging = FALSE /\ renderedCurrentCellSize = 0
    /\ renderedTargetCellSize = 0
    /\ rafPending = {} /\ raf = 0 /\ pressTimers = {}
    /\ lastEvent = "none"
    /\ tickDt = 0
    /\ pointersDown = 0
    /\ budget = 0

\* No computePinnedOffset call is part of the behaviour.
PinOff ==
    /\ pinPrevSize = 0 /\ pinNextSize = 0
    /\ pinPivot = [x |-> 0, y |-> 0] /\ pinPrevOffset = [x |-> 0, y |-> 0]
    /\ pinOffset = [x |-> 0, y |-> 0]
    /\ pinCalls = 0

\* No video player is part of the behaviour.
VideoOff ==
    /\ vpMounted = FALSE
    /\ vpProps = << >>
    /\ vpIsPlaying = FALSE /\ vpShowPlayButton = FALSE /\ vpHasPlayedOnce = FALSE
    /\ vpShowPosterImage = FALSE
    /\ vpListening = FALSE /\ vpAutoTimer = FALSE
    /\ vpHideTimers = 0 /\ vpPromises = 0
    /\ vpMedia = "paused"
    /\ vpFailed = FALSE
    /\ vpLast = "none"
    /\ vpIsHovered = FALSE /\ vpCurrentTime = 0 /\ vpDuration = 0 /\ vpMediaTime = 0

\* No ambient-glow player is part of the behaviour.
AmbiOff ==
    /\ ytApiLoading = FALSE /\ ytReady = FALSE /\ ytScripts = 0
    /\ amb = << >>
    /\ ambMounts = 0

\* No file-source glow player is part of the behaviour.
SyncOff ==
    /\ syMounted = FALSE
    /\ mainVideo = [currentTime |-> 0, paused |-> TRUE]
    /\ glowVideo = [currentTime |-> 0, paused |-> TRUE]
    /\ syIsPlaying = FALSE
    /\ syPromises = 0
    /\ syAsked = FALSE
    /\ syErrors = 0
    /\ syLast = "none"

\* No clock is part of the behaviour.
ClockOff ==
    /\ ckMounted = FALSE
    /\ ckOnCanvas = FALSE
    /\ ckNow = 0
    /\ ckInterval = FALSE
    /\ ckWall = 0

(***************************************************************************)
(* Bounds of the model.                                                    *)
(***************************************************************************)
MaxNow == 6          \* the environment acts at clock values up to MaxNow * ClockStep
MaxRuns == 3         \* effect runs of one preloader instance

ClockStep == 350     \* spacing (ms) of the clock values at which the environment acts

(***************************************************************************)
(* Arithmetic.  The widgets compute with JavaScript numbers; the model     *)
(* computes in fixed point, every product or quotient rounded to the       *)
(* nearest unit, with helpers that stay inside TLC's 32-bit integers.      *)
(***************************************************************************)
MaxInt == 2147483647

Abs(n) == IF n < 0 THEN -n ELSE n
Sgn(n) == IF n < 0 THEN -1 ELSE IF n > 0 THEN 1 ELSE 0
Min(a, b) == IF a < b THEN a ELSE b
Max(a, b) == IF a > b THEN a ELSE b

\* One step of the product a*b, bit by bit from the top of b: from
\* acc = <<floor(a*n/c), (a*n) mod c>> to the same pair for 2*n + bit.
MulDivStep(acc, a, c, bit) ==
    LET r2 == (2 * acc[2]) % c
        r3 == r2 + (IF bit = 1 THEN a % c ELSE 0)
    IN  <<2 * acc[1] + (2 * acc[2]) \div c + (IF bit = 1 THEN a \div c ELSE 0)
              + r3 \div c,
          r3 % c>>

RECURSIVE MulDivFrom(_, _, _, _, _)
MulDivFrom(acc, a, b, c, i) ==
    IF acc[2] >= c \/ i < 0 THEN acc
    ELSE MulDivFrom(MulDivStep(acc, a, c, (b \div 2^i) % 2), a, b, c, i - 1)

\* <<floor(a*b/c), (a*b) mod c>> for a >= 0, 0 <= b <= 2^15 and 0 < c < 2^30.
MulDivShort(a, b, c) ==
    IF a = 0 \/ b = 0 THEN <<0, 0>>
    ELSE IF a <= MaxInt \div b THEN <<(a * b) \div c, (a * b) % c>>
    ELSE MulDivFrom(<<0, 0>>, a, b, c, 15)

\* <<floor(a*b/c), (a*b) mod c>> for a, b >= 0 and 0 < c < 2^30: directly
\* when a*b fits, else from the two 15-bit halves of b.
MulDivQR(a, b, c) ==
    IF a = 0 \/ b = 0 THEN <<0, 0>>
    ELSE IF a <= MaxInt \div b THEN <<(a * b) \div c, (a * b) % c>>
    ELSE LET high  == MulDivShort(a, b \div 32768, c)
             shift == MulDivShort(high[2], 32768, c)
             low   == MulDivShort(a, b % 32768, c)
             r     == shift[2] + low[2]
         IN  IF high[2] < c /\ shift[2] < c /\ low[2] < c
             THEN <<high[1] * 32768 + shift[1] + low[1] + r \div c, r % c>>
             ELSE <<0, 0>>

\* a*b/c rounded to the nearest integer (halves away from zero), b >= 0, c > 0.
MulDiv(a, b, c) ==
    LET qr == MulDivQR(Abs(a), b, c)
    IN  Sgn(a) * (qr[1] + (IF 2 * qr[2] >= c THEN 1 ELSE 0))

\* Wide non-negative integers below 2^60: four base-2^15 digits, least first.
WBase == 32768

\* The product of two integers 0 <= x, y < 2^30.
WMul(x, y) ==
    LET x0 == x % WBase
        x1 == x \div WBase
        y0 == y % WBase
        y1 == y \div WBase
        t0 == x0 * y0
        t1 == x0 * y1 + x1 * y0 + t0 \div WBase
        t2 == x1 * y1 + t1 \div WBase
    IN  <<t0 % WBase, t1 % WBase, t2 % WBase, t2 \div WBase>>

WAdd(a, b) ==
    LET t1 == a[1] + b[1]
        t2 == a[2] + b[2] + t1 \div WBase
        t3 == a[3] + b[3] + t2 \div WBase
    IN  <<t1 % WBase, t2 % WBase, t3 % WBase, a[4] + b[4] + t3 \div WBase>>

WLess(a, b) ==
    \/ a[4] < b[4]
    \/ a[4] = b[4] /\ a[3] < b[3]
    \/ a[4] = b[4] /\ a[3] = b[3] /\ a[2] < b[2]
    \/ a[4] = b[4] /\ a[3] = b[3] /\ a[2] = b[2] /\ a[1] < b[1]

WLeq(a, b) == ~WLess(b, a)

WSq(n) == WMul(Abs(n), Abs(n))

\* Math.hypot(v.x, v.y) squared, for components below 2^30 in size.
Hypot2(v) == WAdd(WSq(v.x), WSq(v.y))

(***************************************************************************)
(* LogoPreloader                                                           *)
(***************************************************************************)

\* The duration control: 0.5 s .. 10 s in steps of 0.1 s; here in milliseconds.
Durations == {500, 700, 1000, 2000, 10000}

\* The three setTimeout calls of one effect run, made at clock value now;
\* id0 is the id of the first one.
LogoScheduleSwapped(now, duration, id0, run) ==
    { [id |-> id0,     at |-> now + 50,             phase |-> "loading", run |-> run],
      [id |-> id0 + 1, at |-> now + duration + 750, phase |-> "logoOut", run |-> run],
      [id |-> id0 + 2, at |-> now + duration + 50,  phase |-> "done",    run |-> run] }

LogoScheduleNoT2(now, duration, id0, run) ==
    { [id |-> id0,     at |-> now + 50,            phase |-> "loading", run |-> run],
      [id |-> id0 + 1, at |-> now + duration + 50, phase |-> "logoOut", run |-> run] }

LogoSchedule(now, duration, id0, run) ==
    { [id |-> id0,     at |-> now + 50,             phase |-> "loading", run |-> run],
      [id |-> id0 + 1, at |-> now + duration + 50,  phase |-> "logoOut", run |-> run],
      [id |-> id0 + 2, at |-> now + duration + 750, phase |-> "done",    run |-> run] }

\* The effect's cleanup: clearTimeout(t0); clearTimeout(t1); clearTimeout(t2).
\* A run in the static renderer returned no cleanup (handles = << >>).
LogoCleanupKeepsT2(timers, handles) ==
    IF handles = << >> THEN timers
    ELSE { t \in timers : t.id \notin {handles[1], handles[2]} }

LogoCleanup(timers, handles) ==
    IF handles = << >> THEN timers
    ELSE { t \in timers : t.id \notin {handles[1], handles[2], handles[3]} }

\* One run of the effect body (after the previous run's cleanup).
LogoEffect(static, duration, timers) ==
    IF static
    THEN /\ lpTimers' = timers
         /\ lpHandles' = << >>
         /\ lpNextId' = lpNextId
    ELSE /\ lpTimers' = timers \cup LogoSchedule(lpNow, duration, lpNextId, lpRun')
         /\ lpHandles' = <<lpNextId, lpNextId + 1, lpNextId + 2>>
         /\ lpNextId' = lpNextId + 3

\* What the component returns: null in phase done, the overlay otherwise.
LogoRender(phase) == IF phase = "done" THEN "null" ELSE "overlay"

\* The browser runs timer callbacks in the order of their due time, and in
\* the order of their creation when due at the same time.
LogoDueFirst(t, timers) ==
    \A u \in timers : t.at < u.at \/ (t.at = u.at /\ t.id <= u.id)

LogoInitWith(statics, durations) ==
    /\ lpMounted = TRUE
    /\ lpStatic \in statics
    /\ lpDuration \in durations
    /\ lpPhase = "init"
    /\ lpNow = 0
    /\ lpRun = 1
    /\ lpTimers = IF lpStatic THEN {} ELSE LogoSchedule(0, lpDuration, 1, 1)
    /\ lpHandles = IF lpStatic THEN << >> ELSE <<1, 2, 3>>
    /\ lpNextId = IF lpStatic THEN 1 ELSE 4

LogoInit == LogoInitWith(BOOLEAN, Durations)

\* The logo preloader is not part of the behaviour: no instance is mounted.
LogoOff ==
    /\ lpMounted = FALSE
    /\ lpStatic = FALSE
    /\ lpDuration = 500
    /\ lpPhase = "init"
    /\ lpNow = 0
    /\ lpRun = 0
    /\ lpTimers = {}
    /\ lpHandles = << >>
    /\ lpNextId = 1

\* A timer callback: startTransition(() => setPhase(p)).
LogoTimerFire ==
    \E t \in lpTimers :
        /\ LogoDueFirst(t, lpTimers)
        /\ lpNow' = IF t.at > lpNow THEN t.at ELSE lpNow
        /\ lpTimers' = lpTimers \ {t}
        /\ lpPhase' = IF lpMounted THEN t.phase ELSE lpPhase
        /\ UNCHANGED <<lpMounted, lpStatic, lpDuration, lpHandles, lpNextId, lpRun>>
        /\ UNCHANGED notLogo

\* Time passes without a timer callback running.
LogoAdvance ==
    /\ lpNow + ClockStep <= MaxNow * ClockStep
    /\ lpNow' = lpNow + ClockStep
    /\ UNCHANGED <<lpMounted, lpStatic, lpDuration, lpPhase, lpTimers, lpHandles,
                   lpNextId, lpRun>>
    /\ UNCHANGED notLogo

\* The host changes the duration prop: the effect's dependency changed, so
\* its cleanup runs and then the effect body runs again.
LogoSetDuration ==
    \E d \in Durations \ {lpDuration} :
        /\ lpMounted
        /\ lpRun < MaxRuns
        /\ lpDuration' = d
        /\ lpRun' = lpRun + 1
        /\ LogoEffect(lpStatic, d, LogoCleanup(lpTimers, lpHandles))
        /\ UNCHANGED <<lpMounted, lpStatic, lpPhase, lpNow>>
        /\ UNCHANGED notLogo

\* useIsStaticRenderer() changes its answer: the same re-run.
LogoSetStatic ==
    /\ lpMounted
    /\ lpRun < MaxRuns
    /\ lpStatic' = ~lpStatic
    /\ lpRun' = lpRun + 1
    /\ LogoEffect(~lpStatic, lpDuration, LogoCleanup(lpTimers, lpHandles))
    /\ UNCHANGED <<lpMounted, lpDuration, lpPhase, lpNow>>
    /\ UNCHANGED notLogo

\* The instance unmounts: the last effect run's cleanup runs.
LogoUnmount ==
    /\ lpMounted
    /\ lpMounted' = FALSE
    /\ lpTimers' = LogoCleanup(lpTimers, lpHandles)
    /\ lpHandles' = << >>
    /\ UNCHANGED <<lpStatic, lpDuration, lpPhase, lpNextId, lpRun, lpNow>>
    /\ UNCHANGED notLogo

NextLogo ==
    \/ LogoTimerFire
    \/ LogoAdvance
    \/ LogoSetDuration
    \/ LogoSetStatic
    \/ LogoUnmount

\* A page with a preloader and no other widget.
LogoStart == LogoInit /\ GalOff /\ PinOff /\ VideoOff /\ AmbiOff /\ SyncOff /\ ClockOff

SpecLogo == LogoStart /\ [][NextLogo]_vars

\* A preloader in a non-static renderer whose props never change and which
\* stays mounted; the browser eventually runs every pending timer.
NextLogoFixed ==
    \/ LogoTimerFire
    \/ LogoAdvance

LogoFixedStart ==
    LogoInitWith({FALSE}, Durations) /\ GalOff /\ PinOff /\ VideoOff /\ AmbiOff
        /\ SyncOff /\ ClockOff

SpecLogoFixed ==
    /\ LogoFixedStart
    /\ [][NextLogoFixed]_vars
    /\ WF_vars(LogoTimerFire)

(***************************************************************************)
(* Claims about the LogoPreloader                                          *)
(***************************************************************************)

LogoForward == { <<"init", "loading">>, <<"loading", "logoOut">>, <<"logoOut", "done">> }

\* C1: in a non-static renderer, as long as the effect has run only once
\* (fixed duration), every change of the phase is a step to the next phase
\* of init -> loading -> logoOut -> done: never backwards, never skipping.
C1_PhaseForward ==
    [][(lpRun = 1 /\ lpRun' = 1 /\ ~lpStatic /\ lpPhase' # lpPhase)
           => <<lpPhase, lpPhase'>> \in LogoForward]_vars

C1_Witness == lpRun = 1 /\ ~lpStatic /\ lpMounted /\ lpPhase = "done"

\* C2: a mounted preloader in a non-static renderer whose duration stays
\* the same eventually reaches phase done and stays there, and from then on
\* it renders nothing.
C2_EventuallyDone == <>[](lpPhase = "done" /\ LogoRender(lpPhase) = "null")

C2_Witness == lpMounted /\ ~lpStatic /\ lpPhase = "done" /\ lpTimers = {}

\* C3: after a teardown (unmount, or the effect re-running) no timer of an
\* earlier effect run is pending: every pending timer was scheduled by the
\* current run of a mounted instance.
C3_NoStaleTimer ==
    \A t \in lpTimers : lpMounted /\ t.run = lpRun

\* Two effect runs scheduled three timers each, none has fired, and only
\* the three of the current run are pending.
C3_Witness ==
    /\ lpMounted /\ lpRun = 2 /\ lpNextId = 7 /\ lpPhase = "init"
    /\ Cardinality(lpTimers) = 3

(***************************************************************************)
(* PhantomInfiniteGallery: values and pure helpers                         *)
(*                                                                         *)
(* Lengths are in units of 1/Unit pixel, velocities in units of 1/Unit     *)
(* pixel per second.  The zoom value, the velocity scale, the parallax     *)
(* strength and the parallax ease are in hundredths, the friction is in    *)
(* thousandths.                                                            *)
(***************************************************************************)
Unit == 1000 * 1000

Px(n) == n * Unit

Vec(x, y) == [x |-> x, y |-> y]

Zero == Vec(0, 0)

VAdd(a, b) == Vec(a.x + b.x, a.y + b.y)

DRAG_THRESHOLD == 4

clamp(v, min, max) == Max(min, Min(max, v))

RECURSIVE Pow(_, _)
Pow(b, k) == IF k = 0 THEN 1 ELSE b * Pow(b, k - 1)

\* worldX = (pivot.x - prevOffset.x) / prevSize, in units of 1/Unit cell;
\* x = pivot.x - worldX * nextSize.
computePinnedOffsetSwapped(prevSize, nextSize, pivot, prevOffset) ==
    LET worldX == MulDiv(pivot.x - prevOffset.x, Unit, nextSize)
        worldY == MulDiv(pivot.y - prevOffset.y, Unit, nextSize)
    IN  Vec(pivot.x - MulDiv(worldX, prevSize, Unit),
            pivot.y - MulDiv(worldY, prevSize, Unit))

computePinnedOffset(prevSize, nextSize, pivot, prevOffset) ==
    LET worldX == MulDiv(pivot.x - prevOffset.x, Unit, prevSize)
        worldY == MulDiv(pivot.y - prevOffset.y, Unit, prevSize)
    IN  Vec(pivot.x - MulDiv(worldX, nextSize, Unit),
            pivot.y - MulDiv(worldY, nextSize, Unit))

\* The centre of the container's bounding rectangle.
Pivot(p) == Vec(Px(p.width) \div 2, Px(p.height) \div 2)

\* tick: prev + (targetCellSize - prev) * 0.15, snapping within 0.05.
LerpSizeNoSnap(prev, target) == prev + MulDiv(target - prev, 15, 100)

LerpSize(prev, target) ==
    LET next == prev + MulDiv(target - prev, 15, 100)
    IN  IF Abs(next - target) < Unit \div 20 THEN target ELSE next

\* tick: prev + (t - prev) * ease on one axis, snapping within 0.1.
LerpAxis(prev, t, ease) ==
    LET n == prev + MulDiv(t - prev, ease, 100)
    IN  IF Abs(n - t) < Unit \div 10 THEN t ELSE n

LerpVec(prev, t, ease) == Vec(LerpAxis(prev.x, t.x, ease), LerpAxis(prev.y, t.y, ease))

\* Math.hypot(v.x, v.y) < s and >= s, for s >= 0.
SpeedBelow(v, s) == WLess(Hypot2(v), WSq(s))

\* The least k in lo..hi with n / sqrt(h2) < k + 1/2: the nearest integer to
\* n / sqrt(h2), which is at most hi.
RECURSIVE RoundOverRoot(_, _, _, _)
RoundOverRoot(n, h2, lo, hi) ==
    IF lo >= hi THEN lo
    ELSE LET mid == (lo + hi) \div 2
         IN  IF WLess(WSq(2 * n), WMul((2 * mid + 1) * (2 * mid + 1), h2))
             THEN RoundOverRoot(n, h2, lo, mid)
             ELSE RoundOverRoot(n, h2, mid + 1, hi)

\* v times or over a power of two, its larger component brought to 14 bits.
Normalize(v) ==
    LET m == Max(Abs(v.x), Abs(v.y))
    IN  IF m < 8192
        THEN LET j == CHOOSE i \in 0..13 : m * 2^i >= 8192 /\ m * 2^i < 16384
             IN  Vec(v.x * 2^j, v.y * 2^j)
        ELSE LET j == CHOOSE i \in 0..17 : m \div 2^i >= 8192 /\ m \div 2^i < 16384
             IN  Vec(Sgn(v.x) * (Abs(v.x) \div 2^j), Sgn(v.y) * (Abs(v.y) \div 2^j))

\* A tick that lets a throw slower than 1 px/s come to rest.
CreepVelocityRests(v) == Zero

\* tick, once the speed is below 1: the velocity of length 0.0001 in the
\* direction Math.atan2(v.y, v.x), which is 0 for the zero vector.
CreepVelocity(v) ==
    IF v = Zero THEN Vec(Unit \div 10000, 0)
    ELSE LET s  == Normalize(v)
             h2 == s.x * s.x + s.y * s.y
             c  == Unit \div 10000
         IN  Vec(Sgn(v.x) * RoundOverRoot(c * Abs(s.x), h2, 0, c),
                 Sgn(v.y) * RoundOverRoot(c * Abs(s.y), h2, 0, c))

\* tick, inertia update: f = Math.pow(throwFriction, dt * 60) with dt = k/60 s,
\* both components times f, and the creep once the speed is below 1.
TickVelocityInverse(v, friction, k) ==
    LET w == Vec(MulDiv(v.x, Pow(1000, k), Pow(friction, k)),
                 MulDiv(v.y, Pow(1000, k), Pow(friction, k)))
    IN  IF SpeedBelow(w, Unit) THEN CreepVelocity(w) ELSE w

TickVelocity(v, friction, k) ==
    LET w == Vec(MulDiv(v.x, Pow(friction, k), Pow(1000, k)),
                 MulDiv(v.y, Pow(friction, k), Pow(1000, k)))
    IN  IF SpeedBelow(w, Unit) THEN CreepVelocity(w) ELSE w

\* handlePointerMove: clamp((d / dt) * throwVelocityScale, -max, max) for a
\* move of d in dt milliseconds, then the moving average 0.6 new / 0.4 old.
MoveVelocityAxis(old, d, dt, scale, max) ==
    LET limit == MulDivQR(Px(max), dt, 10 * scale)
        atMax == Abs(d) >= limit[1] + (IF limit[2] > 0 THEN 1 ELSE 0)
        v     == IF atMax THEN Sgn(d) * Px(max) ELSE MulDiv(d, 10 * scale, dt)
    IN  MulDiv(v, 6, 10) + MulDiv(old, 4, 10)

MoveVelocity(old, d, dt, p) ==
    Vec(MoveVelocityAxis(old.x, d.x, dt, p.throwVelocityScale, p.throwMaxSpeed),
        MoveVelocityAxis(old.y, d.y, dt, p.throwVelocityScale, p.throwMaxSpeed))

\* handlePointerMove: the parallax target (center - mouse) * parallaxStrength.
ParallaxTarget(pos, p) ==
    Vec(MulDiv(Pivot(p).x - pos.x, p.parallaxStrength, 100),
        MulDiv(Pivot(p).y - pos.y, p.parallaxStrength, 100))

\* requestAnimationFrame and setTimeout return a handle that no pending
\* callback and no variable still holds.
FreshId(used) == CHOOSE i \in 1..(Cardinality(used) + 1) : i \notin used

\* The loop effect's cleanup: cancelAnimationFrame(raf).
CancelFrame(pending, handle) == { h \in pending : h.id # handle }

\* tick: raf = requestAnimationFrame(tick).
NextRafForgotten(old, new) == old

NextRaf(old, new) == new

(***************************************************************************)
(* PhantomInfiniteGallery: the instance                                    *)
(***************************************************************************)
MaxSteps == 4        \* animation frames and pointer events of one behaviour

\* The property controls (src/unnamed/part_000, lines 1116-1324) and the
\* size of the container; the values the model draws the props from.
GalleryPropsOf(inertiaEnabled, throwMinSpeed, throwFriction) ==
    [ cellSize |-> Px(200), zoomValue |-> 70, width |-> 800, height |-> 600,
      inertiaEnabled |-> inertiaEnabled, throwFriction |-> throwFriction,
      throwVelocityScale |-> 100, throwMinSpeed |-> throwMinSpeed,
      throwMaxSpeed |-> 500, parallaxEnabled |-> TRUE, parallaxStrength |-> 10,
      parallaxEase |-> 12, parallaxWhileDragging |-> FALSE ]

GalleryProps ==
    { GalleryPropsOf(TRUE, 0, 850), GalleryPropsOf(TRUE, 80, 990),
      GalleryPropsOf(FALSE, 80, 920) }

\* Pointer positions (clientX, clientY) and the milliseconds between two
\* pointer moves; the container's rectangle starts at (0, 0).
PointerPositions ==
    { Vec(Px(400), Px(300)), Vec(Px(400), Px(304)), Vec(Px(460), Px(380)) }

MoveGaps == {8, 2000}

\* dt * 60 of a tick, dt = Math.min(0.05, elapsed): 0 to 3 sixtieths of a second.
FrameGaps == {0, 1, 3}

\* One more frame or pointer event is taken; a negative budget is unlimited.
Spend == budget' = IF budget > 0 THEN budget - 1 ELSE budget

\* The state after the first render and its effects: the ref effects copied
\* the initial state, the loop effect requested the first frame, and the
\* cellSize effect set targetCellSize and targetOffset.
GalInitWith(ps, steps) ==
    /\ mounted = TRUE
    /\ props \in ps
    /\ offset = Zero
    /\ targetOffset = computePinnedOffset(props.cellSize, props.cellSize, Pivot(props), Zero)
    /\ isDragging = FALSE
    /\ currentCellSize = props.cellSize
    /\ mouseOffset = Zero
    /\ targetMouseOffset = Zero
    /\ targetCellSize = props.cellSize
    /\ inertia = Zero
    /\ inertiaRef = Zero
    /\ velocityRef = Zero
    /\ lastMoveRef = Zero
    /\ inertiaActiveRef = FALSE
    /\ isPressingRef = FALSE
    /\ draggingRef = FALSE
    /\ offsetRef = Zero
    /\ targetOffsetRef = Zero
    /\ targetMouseOffsetRef = Zero
    /\ pressPosRef = Zero
    /\ startOffsetRef = Zero
    /\ pressTimerRef = 0
    /\ renderedIsDragging = FALSE
    /\ renderedCurrentCellSize = props.cellSize
    /\ renderedTargetCellSize = props.cellSize
    /\ rafPending = { [id |-> 1, target |-> props.cellSize, live |-> TRUE] }
    /\ raf = 1
    /\ pressTimers = {}
    /\ lastEvent = "mount"
    /\ tickDt = 0
    /\ pointersDown = 0
    /\ budget = steps

GalInit == GalInitWith(GalleryProps, MaxSteps)

\* tick: one animation-frame callback, k sixtieths of a second after the
\* previous one (capped at 3).  The state setters do nothing once the
\* instance is unmounted.
GalTick ==
    \E h \in rafPending, k \in FrameGaps :
        LET idle   == rafPending \ {h}
            id     == FreshId({g.id : g \in idle} \cup {raf})
            coast  == props.inertiaEnabled /\ inertiaActiveRef
            v      == IF coast THEN TickVelocity(velocityRef, props.throwFriction, k)
                      ELSE velocityRef
            follow == props.parallaxEnabled
                      /\ (props.parallaxWhileDragging \/ ~draggingRef)
        IN  /\ budget # 0
            /\ Spend
            /\ lastEvent' = "tick"
            /\ tickDt' = k
            /\ rafPending' = idle \cup {[id |-> id, target |-> h.target, live |-> h.live]}
            /\ raf' = IF h.live THEN NextRaf(raf, id) ELSE raf
            /\ velocityRef' = v
            /\ currentCellSize' =
                   IF mounted THEN LerpSize(currentCellSize, h.target) ELSE currentCellSize
            /\ offset' =
                   IF mounted /\ ~draggingRef THEN LerpVec(offset, targetOffsetRef, 15)
                   ELSE offset
            /\ inertia' =
                   IF mounted /\ coast
                   THEN VAdd(inertia, Vec(MulDiv(v.x, k, 60), MulDiv(v.y, k, 60)))
                   ELSE inertia
            /\ mouseOffset' =
                   IF ~mounted THEN mouseOffset
                   ELSE IF follow
                        THEN LerpVec(mouseOffset, targetMouseOffsetRef, props.parallaxEase)
                        ELSE LerpVec(mouseOffset, Zero, props.parallaxEase)
            /\ UNCHANGED <<mounted, props, targetOffset, isDragging, targetMouseOffset,
                           targetCellSize, inertiaRef, lastMoveRef, inertiaActiveRef,
                           isPressingRef, draggingRef, offsetRef, targetOffsetRef,
                           targetMouseOffsetRef, pressPosRef, startOffsetRef,
                           pressTimerRef, galRendered, pressTimers, pointersDown>>
            /\ UNCHANGED notGallery

\* Something of the state differs from what the last render saw.
Dirty ==
    \/ offsetRef # offset
    \/ targetOffsetRef # targetOffset
    \/ targetMouseOffsetRef # targetMouseOffset
    \/ inertiaRef # inertia
    \/ renderedIsDragging # isDragging
    \/ renderedCurrentCellSize # currentCellSize
    \/ renderedTargetCellSize # targetCellSize

\* React renders the component and runs the effects whose dependencies
\* changed: the ref effects copy the state, and the loop effect, when
\* targetCellSize changed, cancels its frame and requests a new one.
GalCommit ==
    LET restart == renderedTargetCellSize # targetCellSize
        kept    == { [h EXCEPT !.live = FALSE] : h \in CancelFrame(rafPending, raf) }
        id      == FreshId({h.id : h \in kept})
    IN  /\ mounted
        /\ Dirty
        /\ lastEvent' = "commit"
        /\ tickDt' = 0
        /\ inertiaRef' = inertia
        /\ offsetRef' = offset
        /\ targetOffsetRef' = targetOffset
        /\ targetMouseOffsetRef' = targetMouseOffset
        /\ draggingRef' = IF renderedIsDragging # isDragging THEN isDragging ELSE draggingRef
        /\ renderedIsDragging' = isDragging
        /\ renderedCurrentCellSize' = currentCellSize
        /\ renderedTargetCellSize' = targetCellSize
        /\ rafPending' = IF restart
                         THEN kept \cup {[id |-> id, target |-> targetCellSize, live |-> TRUE]}
                         ELSE rafPending
        /\ raf' = IF restart THEN id ELSE raf
        /\ UNCHANGED <<mounted, props, galState, velocityRef, lastMoveRef,
                       inertiaActiveRef, isPressingRef, pressPosRef, startOffsetRef,
                       pressTimerRef, pressTimers, pointersDown, budget>>
        /\ UNCHANGED notGallery

ClearPressTimerForgotten(timers, ref) == timers

\* if (pressTimerRef.current) window.clearTimeout(pressTimerRef.current)
ClearPressTimer(timers, ref) ==
    IF ref # 0 THEN { t \in timers : t.id # ref } ELSE timers

commitInertiaDropped(currentOffset, currentInertia) == currentOffset

\* commitInertiaToBase: the committed base offset.
commitInertiaToBase(currentOffset, currentInertia) ==
    [x |-> currentOffset.x + currentInertia.x, y |-> currentOffset.y + currentInertia.y]

\* commitInertiaToBase is due: inertia is running or its delta is not zero.
InertiaToCommit == inertiaActiveRef \/ inertiaRef.x # 0 \/ inertiaRef.y # 0

\* handlePointerDown at position pos.
GalPointerDown ==
    \E pos \in PointerPositions :
        LET committed == commitInertiaToBase(offsetRef, inertiaRef)
            cleared   == ClearPressTimer(pressTimers, pressTimerRef)
            id        == FreshId({t.id : t \in cleared})
        IN  /\ mounted
            /\ budget # 0
            /\ Spend
            /\ pointersDown' = pointersDown + 1
            /\ lastEvent' = "down"
            /\ tickDt' = 0
            /\ offset' = IF InertiaToCommit THEN committed ELSE offset
            /\ targetOffset' = IF InertiaToCommit THEN committed ELSE targetOffset
            /\ inertia' = IF InertiaToCommit THEN Zero ELSE inertia
            /\ inertiaActiveRef' = IF InertiaToCommit THEN FALSE ELSE inertiaActiveRef
            /\ isPressingRef' = TRUE
            /\ isDragging' = FALSE
            /\ lastMoveRef' = pos
            /\ velocityRef' = Zero
            /\ pressPosRef' = pos
            /\ startOffsetRef' = offsetRef
            /\ pressTimers' = cleared \cup {[id |-> id, size |-> renderedCurrentCellSize,
                                              cell |-> props.cellSize]}
            /\ pressTimerRef' = id
            /\ UNCHANGED <<mounted, props, currentCellSize, mouseOffset, targetMouseOffset,
                           targetCellSize, inertiaRef, draggingRef, offsetRef,
                           targetOffsetRef, targetMouseOffsetRef, galRendered,
                           rafPending, raf>>
            /\ UNCHANGED notGallery

BeyondThresholdOrAt(d) == WLeq(WSq(Px(DRAG_THRESHOLD)), Hypot2(d))

\* Math.hypot(dx, dy) > DRAG_THRESHOLD
BeyondThreshold(d) == WLess(WSq(Px(DRAG_THRESHOLD)), Hypot2(d))

DragOffsetNoStart(start, d) == d

\* The base offset of a drag: startOffsetRef.current plus the pointer's
\* displacement from the press position.
DragOffset(start, d) == VAdd(start, d)

\* handlePointerMove to position pos, dt milliseconds after the previous
\* pointer event.
GalPointerMove ==
    \E pos \in PointerPositions, dt \in MoveGaps :
        LET d         == Vec(pos.x - pressPosRef.x, pos.y - pressPosRef.y)
            follow    == /\ props.parallaxEnabled
                         /\ props.parallaxWhileDragging \/ ~draggingRef
                         /\ ~(isPressingRef \/ renderedIsDragging)
            startDrag == /\ isPressingRef
                         /\ ~renderedIsDragging
                         /\ BeyondThreshold(d)
            dragging  == isPressingRef /\ (draggingRef \/ startDrag)
            start     == IF startDrag THEN offsetRef ELSE startOffsetRef
        IN  /\ mounted
            /\ budget # 0
            /\ Spend
            /\ lastEvent' = "move"
            /\ tickDt' = 0
            /\ velocityRef' =
                   IF isPressingRef
                   THEN MoveVelocity(velocityRef,
                                     Vec(pos.x - lastMoveRef.x, pos.y - lastMoveRef.y),
                                     dt, props)
                   ELSE velocityRef
            /\ lastMoveRef' = IF isPressingRef THEN pos ELSE lastMoveRef
            /\ targetMouseOffset' =
                   IF follow THEN ParallaxTarget(pos, props) ELSE targetMouseOffset
            /\ isDragging' = IF startDrag THEN TRUE ELSE isDragging
            /\ draggingRef' = IF startDrag THEN TRUE ELSE draggingRef
            /\ startOffsetRef' = start
            /\ offset' = IF dragging THEN DragOffset(start, d) ELSE offset
            /\ targetOffset' = IF dragging THEN DragOffset(start, d) ELSE targetOffset
            /\ UNCHANGED <<mounted, props, currentCellSize, mouseOffset, targetCellSize,
                           inertia, inertiaRef, inertiaActiveRef, isPressingRef,
                           offsetRef, targetOffsetRef, targetMouseOffsetRef, pressPosRef,
                           pressTimerRef, galRendered, rafPending, raf, pressTimers,
                           pointersDown>>
            /\ UNCHANGED notGallery

ThrowsOnlyAbove(ps, v) ==
    ps.inertiaEnabled /\ WLess(WSq(Px(ps.throwMinSpeed)), Hypot2(v))

\* The release starts inertia: inertiaEnabled && speed >= throwMinSpeed
Throws(ps, v) ==
    ps.inertiaEnabled /\ ~SpeedBelow(v, Px(ps.throwMinSpeed))

\* handlePointerUp (onPointerUp and onPointerCancel).
GalPointerUp ==
    LET fast       == Throws(props, velocityRef)
        visible    == VAdd(offsetRef, inertiaRef)
        pinnedBack == computePinnedOffset(renderedCurrentCellSize, props.cellSize,
                                          Pivot(props), visible)
    IN  /\ mounted
        /\ pointersDown > 0
        /\ pointersDown' = pointersDown - 1
        /\ budget # 0
        /\ Spend
        /\ lastEvent' = "up"
        /\ tickDt' = 0
        /\ isPressingRef' = FALSE
        /\ pressTimers' = ClearPressTimer(pressTimers, pressTimerRef)
        /\ pressTimerRef' = 0
        /\ inertiaActiveRef' = fast
        /\ inertia' = IF fast THEN inertia ELSE Zero
        /\ isDragging' = FALSE
        /\ draggingRef' = FALSE
        /\ targetMouseOffset' = Zero
        /\ targetCellSize' = props.cellSize
        /\ targetOffset' = pinnedBack
        /\ UNCHANGED <<mounted, props, offset, currentCellSize, mouseOffset, inertiaRef,
                       velocityRef, lastMoveRef, offsetRef, targetOffsetRef,
                       targetMouseOffsetRef, pressPosRef, startOffsetRef, galRendered,
                       rafPending, raf>>
        /\ UNCHANGED notGallery

\* handlePointerLeave.
GalPointerLeave ==
    /\ mounted
    /\ budget # 0
    /\ Spend
    /\ lastEvent' = "leave"
    /\ tickDt' = 0
    /\ targetMouseOffset' = Zero
    /\ UNCHANGED <<mounted, props, offset, targetOffset, isDragging, currentCellSize,
                   mouseOffset, targetCellSize, inertia, galRefs, galRendered,
                   rafPending, raf, pressTimers, pointersDown>>
    /\ UNCHANGED notGallery

ZoomSizeInverse(cell, zoomValue) == MulDiv(cell, 100, zoomValue)

\* newSize = cellSize * props.zoomValue, the zoom value in hundredths.
ZoomSize(cell, zoomValue) == MulDiv(cell, zoomValue, 100)

\* The callback of the press-hold timer, PRESS_ZOOM_DELAY after the pointer
\* down that set it; t.size and t.cell are the currentCellSize and the
\* cellSize that pointer down saw.
GalPressTimer ==
    \E t \in pressTimers :
        LET zoom    == mounted /\ ~draggingRef /\ isPressingRef
            newSize == ZoomSize(t.cell, props.zoomValue)
            pinned  == computePinnedOffset(t.size, newSize, Pivot(props),
                                           VAdd(offsetRef, inertiaRef))
        IN  /\ lastEvent' = "timer"
            /\ tickDt' = 0
            /\ pressTimers' = pressTimers \ {t}
            /\ targetCellSize' = IF zoom THEN newSize ELSE targetCellSize
            /\ targetOffset' = IF zoom THEN pinned ELSE targetOffset
            /\ UNCHANGED <<mounted, props, offset, isDragging, currentCellSize, mouseOffset,
                           targetMouseOffset, inertia, galRefs, galRendered, rafPending,
                           raf, pointersDown, budget>>
            /\ UNCHANGED notGallery

\* The instance unmounts: the cleanup of the loop effect cancels the frame.
\* No cleanup clears the press-hold timer.
GalUnmount ==
    /\ mounted
    /\ mounted' = FALSE
    /\ lastEvent' = "unmount"
    /\ tickDt' = 0
    /\ rafPending' = CancelFrame(rafPending, raf)
    /\ UNCHANGED <<props, galState, galRefs, galRendered, raf, pressTimers,
                   pointersDown, budget>>
    /\ UNCHANGED notGallery

NextGallery ==
    \/ GalTick
    \/ GalCommit
    \/ GalPointerDown
    \/ GalPointerMove
    \/ GalPointerUp
    \/ GalPointerLeave
    \/ GalPressTimer
    \/ GalUnmount

\* A page with a gallery and no other widget.
GalleryStart == GalInit /\ LogoOff /\ PinOff /\ VideoOff /\ AmbiOff /\ SyncOff /\ ClockOff

SpecGallery == GalleryStart /\ [][NextGallery]_vars

\* The easing loop left alone: an idle gallery (no pointer down, no drag,
\* no inertia) whose tweened quantities are away from their targets, and
\* only frames and renders happen.  The browser keeps running the loop.
EaseSizes == {Px(200), Px(140)}

EaseOffsets == {Zero, Vec(Px(37), Px(-12))}

EaseTargetOffsets == {Vec(Px(-60), Px(45))}

EaseMouseOffsets == {Zero, Vec(Px(20), Px(-15))}

EaseProps ==
    { [GalleryPropsOf(TRUE, 80, 920) EXCEPT !.parallaxEase = 12],
      [GalleryPropsOf(TRUE, 80, 920) EXCEPT !.parallaxEase = 50,
                                            !.parallaxEnabled = FALSE] }

EaseInit ==
    /\ mounted = TRUE
    /\ props \in EaseProps
    /\ offset \in EaseOffsets
    /\ targetOffset \in EaseTargetOffsets
    /\ isDragging = FALSE
    /\ currentCellSize \in EaseSizes
    /\ mouseOffset \in EaseMouseOffsets
    /\ targetMouseOffset \in EaseMouseOffsets
    /\ targetCellSize \in EaseSizes
    /\ inertia = Zero
    /\ inertiaRef = Zero
    /\ velocityRef = Zero
    /\ lastMoveRef = Zero
    /\ inertiaActiveRef = FALSE
    /\ isPressingRef = FALSE
    /\ draggingRef = FALSE
    /\ offsetRef = offset
    /\ targetOffsetRef = targetOffset
    /\ targetMouseOffsetRef = targetMouseOffset
    /\ pressPosRef = Zero
    /\ startOffsetRef = Zero
    /\ pressTimerRef = 0
    /\ renderedIsDragging = FALSE
    /\ renderedCurrentCellSize = currentCellSize
    /\ renderedTargetCellSize = targetCellSize
    /\ rafPending = { [id |-> 1, target |-> targetCellSize, live |-> TRUE] }
    /\ raf = 1
    /\ pressTimers = {}
    /\ lastEvent = "commit"
    /\ tickDt = 0
    /\ pointersDown = 0
    /\ budget = -1

NextGalleryEase ==
    \/ GalTick
    \/ GalCommit

EaseStart == EaseInit /\ LogoOff /\ PinOff /\ VideoOff /\ AmbiOff /\ SyncOff /\ ClockOff

SpecGalleryEase ==
    /\ EaseStart
    /\ [][NextGalleryEase]_vars
    /\ WF_vars(GalTick)

(***************************************************************************)
(* Claims about the PhantomInfiniteGallery                                 *)
(***************************************************************************)

\* C4: a mounted gallery has exactly one animation-frame callback pending,
\* the one whose handle the current run of the loop effect holds and whose
\* tick sees the current targetCellSize; an unmounted one has none.
C4_OneFrameLoop ==
    /\ Cardinality(rafPending) <= 1
    /\ mounted => rafPending = { [id |-> raf, target |-> renderedTargetCellSize,
                                  live |-> TRUE] }
    /\ ~mounted => rafPending = {}

\* The loop effect re-ran for a changed targetCellSize (the press-hold zoom)
\* and the instance unmounted afterwards.
C4_Witness ==
    /\ ~mounted
    /\ renderedTargetCellSize # props.cellSize
    /\ rafPending = {}

\* C5: once the gallery is unmounted no timer it scheduled is pending, so
\* the press-hold timer callback does not run after the unmount.
C5_TimersClearedOnUnmount ==
    ~mounted => (pressTimers = {} /\ lastEvent # "timer")

\* A tick that ran the inertia update.
InertiaTick == lastEvent' = "tick" /\ props.inertiaEnabled /\ inertiaActiveRef

MouseTarget == IF props.parallaxEnabled THEN targetMouseOffset ELSE Zero

AtTargets ==
    /\ currentCellSize = targetCellSize
    /\ offset = targetOffset
    /\ mouseOffset = MouseTarget

\* C9: with the targets unchanged and no drag, the cell size, the offset
\* and the parallax offset reach their targets exactly after finitely many
\* ticks and stay there.
C9_ReachesTargets == <>[]AtTargets

\* The loop moved the offset and the cell size onto their targets since the
\* last render.
C9_Witness ==
    /\ AtTargets
    /\ offsetRef # offset
    /\ renderedCurrentCellSize # currentCellSize
    /\ mouseOffset # Zero

(***************************************************************************)
(* computePinnedOffset on its own: the arguments are drawn from the sizes  *)
(* and offsets a gallery can hold, the function is applied, and then       *)
(* applied back with the sizes exchanged.                                  *)
(***************************************************************************)
PinSizes == {Px(100), Px(140), Px(200), Px(400)}

PinPivots == {Vec(Px(400), Px(300))}

PinOffsets ==
    {Zero, Vec(Unit \div 10, -Px(37)), Vec(Px(60), Px(-45)),
     Vec(Px(-12) - 345678, Px(98) + 765432)}

PinInit ==
    /\ pinPrevSize \in PinSizes
    /\ pinNextSize \in PinSizes
    /\ pinPivot \in PinPivots
    /\ pinPrevOffset \in PinOffsets
    /\ pinOffset = pinPrevOffset
    /\ pinCalls = 0

\* setTargetOffset(computePinnedOffset(prevSize, nextSize, pivot, offset))
PinForward ==
    /\ pinCalls = 0
    /\ pinOffset' = computePinnedOffset(pinPrevSize, pinNextSize, pinPivot, pinOffset)
    /\ pinCalls' = 1
    /\ UNCHANGED <<pinPrevSize, pinNextSize, pinPivot, pinPrevOffset>>
    /\ UNCHANGED notPinned

\* the same call with the sizes exchanged, on the offset pinned before
PinBack ==
    /\ pinCalls = 1
    /\ pinOffset' = computePinnedOffset(pinNextSize, pinPrevSize, pinPivot, pinOffset)
    /\ pinCalls' = 2
    /\ UNCHANGED <<pinPrevSize, pinNextSize, pinPivot, pinPrevOffset>>
    /\ UNCHANGED notPinned

NextPinned ==
    \/ PinForward
    \/ PinBack

PinnedStart == PinInit /\ LogoOff /\ GalOff /\ VideoOff /\ AmbiOff /\ SyncOff /\ ClockOff

SpecPinned ==
    /\ PinnedStart
    /\ [][NextPinned]_vars

\* The world coordinate (in millionths of a cell) under the pivot.
PinWorld(size, pivot, off) ==
    Vec(MulDiv(pivot.x - off.x, Unit, size), MulDiv(pivot.y - off.y, Unit, size))

\* Two vectors differ by at most tol on both axes.
Near(a, b, tol) == Abs(a.x - b.x) <= tol /\ Abs(a.y - b.y) <= tol

\* The rounding of one world coordinate, seen at a cell size: half a
\* millionth of a cell, and one unit for the rounding of the product.
PinTol(size) == size \div (2 * Unit) + 1

\* C7 as stated: the world point under the pivot is the same before and
\* after, the result is prevOffset when the sizes are equal, and pinning
\* back returns the original offset, all exactly.
C7_PinnedExact ==
    /\ pinCalls = 1 =>
           /\ PinWorld(pinNextSize, pinPivot, pinOffset)
                  = PinWorld(pinPrevSize, pinPivot, pinPrevOffset)
           /\ pinNextSize = pinPrevSize => pinOffset = pinPrevOffset
    /\ pinCalls = 2 => pinOffset = pinPrevOffset

\* C7 as amended: the world point under the pivot is the same before and
\* after, the result is prevOffset when the sizes are equal, and pinning
\* back returns the original offset, each up to the rounding of the
\* intermediate world coordinate.
C7_PinnedUpToRounding ==
    /\ pinCalls = 1 =>
           /\ Near(PinWorld(pinNextSize, pinPivot, pinOffset),
                   PinWorld(pinPrevSize, pinPivot, pinPrevOffset), 1)
           /\ pinNextSize = pinPrevSize =>
                  Near(pinOffset, pinPrevOffset, PinTol(pinPrevSize))
    /\ pinCalls = 2 => Near(pinOffset, pinPrevOffset, PinTol(pinPrevSize))

\* An offset was pinned from one size to a different one and back, and the
\* round trip moved it by a rounding error.
C7_Witness ==
    /\ pinCalls = 2
    /\ pinPrevSize # pinNextSize
    /\ pinOffset # pinPrevOffset

(***************************************************************************)
(* MinimalVideoPlayer (src/unnamed/part_002).  The media element is the    *)
(* environment: play() on a paused element starts it ("starting"), the     *)
(* play event follows ("started"), then playing events ("playing");        *)
(* pause() leads to the pause event ("pausing", then "paused"); loading    *)
(* or decoding can fail at any time ("error"); a play() promise that has   *)
(* not been resolved by a playing event can be rejected.                   *)
(***************************************************************************)
MaxHideTimers == 2   \* poster-hide timers pending at once
MaxPromises == 2     \* play() promises pending at once
MediaLength == 1     \* the length of the media, in steps of the progress bar

VideoProps ==
    [autoPlay : BOOLEAN, autoPlayDelay : {0, 500}, showPoster : BOOLEAN,
     isStatic : BOOLEAN]

\* video.play(): the element's state after the call.
MediaAfterPlay(media) == IF media = "paused" THEN "starting" ELSE media

\* video.pause(): the element's state after the call.
MediaAfterPause(media) ==
    IF media \in {"starting", "started", "playing"} THEN "pausing" ELSE media

AutoPlaysWhenStatic(p) == p.autoPlay

\* The autoplay effect's guard: if (!video || isStatic || !autoPlay) return
AutoPlays(p) == ~p.isStatic /\ p.autoPlay

\* The state after the first render and its two effects.
VpInit ==
    /\ vpMounted = TRUE
    /\ vpProps \in VideoProps
    /\ vpIsPlaying = vpProps.autoPlay
    /\ vpShowPlayButton = ~vpProps.autoPlay
    /\ vpHasPlayedOnce = vpProps.autoPlay
    /\ vpShowPosterImage = vpProps.showPoster
    /\ vpListening = ~vpProps.isStatic
    /\ vpAutoTimer = (AutoPlays(vpProps) /\ vpProps.autoPlayDelay > 0)
    /\ vpHideTimers = 0
    /\ vpPromises = IF AutoPlays(vpProps) /\ vpProps.autoPlayDelay = 0 THEN 1 ELSE 0
    /\ vpMedia = IF AutoPlays(vpProps) /\ vpProps.autoPlayDelay = 0
                 THEN MediaAfterPlay("paused") ELSE "paused"
    /\ vpFailed = FALSE
    /\ vpLast = "mount"
    /\ vpIsHovered = FALSE
    /\ vpCurrentTime = 0
    /\ vpDuration = 0
    /\ vpMediaTime = 0

\* The play event and handlePlay.
VpOnPlay ==
    /\ vpMedia = "starting"
    /\ vpMedia' = "started"
    /\ vpLast' = "play"
    /\ IF vpListening
       THEN vpIsPlaying' = TRUE /\ vpShowPlayButton' = FALSE /\ vpHasPlayedOnce' = TRUE
       ELSE UNCHANGED <<vpIsPlaying, vpShowPlayButton, vpHasPlayedOnce>>
    /\ UNCHANGED <<vpMounted, vpProps, vpShowPosterImage, vpListening, vpAutoTimer,
                   vpHideTimers, vpPromises, vpFailed>>
    /\ UNCHANGED vpSeek
    /\ UNCHANGED notVideo

\* The pause event and handlePause.
VpOnPause ==
    /\ vpMedia = "pausing"
    /\ vpMedia' = "paused"
    /\ vpLast' = "pause"
    /\ IF vpListening
       THEN vpIsPlaying' = FALSE /\ vpShowPlayButton' = TRUE
       ELSE UNCHANGED <<vpIsPlaying, vpShowPlayButton>>
    /\ UNCHANGED <<vpMounted, vpProps, vpHasPlayedOnce, vpShowPosterImage, vpListening,
                   vpAutoTimer, vpHideTimers, vpPromises, vpFailed>>
    /\ UNCHANGED vpSeek
    /\ UNCHANGED notVideo

\* The playing event and handleReady; the pending play() promises resolve.
VpOnPlaying ==
    /\ vpMedia \in {"started", "playing"}
    /\ vpHideTimers < MaxHideTimers
    /\ vpMedia' = "playing"
    /\ vpLast' = "playing"
    /\ vpPromises' = 0
    /\ vpHideTimers' = IF vpListening THEN vpHideTimers + 1 ELSE vpHideTimers
    /\ vpFailed' = IF vpListening THEN FALSE ELSE vpFailed
    /\ UNCHANGED <<vpMounted, vpProps, vpIsPlaying, vpShowPlayButton, vpHasPlayedOnce,
                   vpShowPosterImage, vpListening, vpAutoTimer>>
    /\ UNCHANGED vpSeek
    /\ UNCHANGED notVideo

\* The error event and handleError.
VpOnError ==
    /\ vpMedia # "error"
    /\ vpMedia' = "error"
    /\ vpLast' = "error"
    /\ IF vpListening
       THEN vpShowPosterImage' = TRUE /\ vpIsPlaying' = FALSE /\ vpFailed' = TRUE
       ELSE UNCHANGED <<vpShowPosterImage, vpIsPlaying, vpFailed>>
    /\ UNCHANGED <<vpMounted, vpProps, vpShowPlayButton, vpHasPlayedOnce, vpListening,
                   vpAutoTimer, vpHideTimers, vpPromises>>
    /\ UNCHANGED vpSeek
    /\ UNCHANGED notVideo

\* A play() promise rejects: .catch(() => setShowPosterImage(true))
VpPlayRejected ==
    /\ vpPromises > 0
    /\ vpMedia # "playing"
    /\ vpPromises' = vpPromises - 1
    /\ vpMedia' = IF vpMedia \in {"starting", "started"} THEN "paused" ELSE vpMedia
    /\ vpLast' = "rejected"
    /\ IF vpMounted
       THEN vpShowPosterImage' = TRUE /\ vpFailed' = TRUE
       ELSE UNCHANGED <<vpShowPosterImage, vpFailed>>
    /\ UNCHANGED <<vpMounted, vpProps, vpIsPlaying, vpShowPlayButton, vpHasPlayedOnce,
                   vpListening, vpAutoTimer, vpHideTimers>>
    /\ UNCHANGED vpSeek
    /\ UNCHANGED notVideo

\* togglePlay (a click on the video area or on a play button).
VpToggle ==
    /\ vpMounted
    /\ vpIsPlaying \/ vpProps.isStatic \/ vpPromises < MaxPromises
    /\ vpLast' = "toggle"
    /\ vpMedia' = IF vpProps.isStatic THEN vpMedia
                  ELSE IF vpIsPlaying THEN MediaAfterPause(vpMedia)
                  ELSE MediaAfterPlay(vpMedia)
    /\ vpPromises' = IF vpProps.isStatic \/ vpIsPlaying THEN vpPromises
                     ELSE vpPromises + 1
    /\ UNCHANGED <<vpMounted, vpProps, vpIsPlaying, vpShowPlayButton, vpHasPlayedOnce,
                   vpShowPosterImage, vpListening, vpAutoTimer, vpHideTimers, vpFailed>>
    /\ UNCHANGED vpSeek
    /\ UNCHANGED notVideo

\* The autoplay timer's callback.
VpAutoPlayTimer ==
    /\ vpAutoTimer
    /\ vpPromises < MaxPromises
    /\ vpAutoTimer' = FALSE
    /\ vpMedia' = MediaAfterPlay(vpMedia)
    /\ vpPromises' = vpPromises + 1
    /\ vpLast' = "autoplay"
    /\ UNCHANGED <<vpMounted, vpProps, vpIsPlaying, vpShowPlayButton, vpHasPlayedOnce,
                   vpShowPosterImage, vpListening, vpHideTimers, vpFailed>>
    /\ UNCHANGED vpSeek
    /\ UNCHANGED notVideo

\* The callback of a timer started by handleReady: setShowPosterImage(false)
VpHideTimer ==
    /\ vpHideTimers > 0
    /\ vpHideTimers' = vpHideTimers - 1
    /\ vpShowPosterImage' = IF vpMounted THEN FALSE ELSE vpShowPosterImage
    /\ vpLast' = "hide"
    /\ UNCHANGED <<vpMounted, vpProps, vpIsPlaying, vpShowPlayButton, vpHasPlayedOnce,
                   vpListening, vpAutoTimer, vpPromises, vpMedia, vpFailed>>
    /\ UNCHANGED vpSeek
    /\ UNCHANGED notVideo

\* Unmount: the cleanups of the listener effect and of the autoplay effect;
\* the element leaves the document.
VpUnmount ==
    /\ vpMounted
    /\ vpMounted' = FALSE
    /\ vpListening' = FALSE
    /\ vpAutoTimer' = FALSE
    /\ vpMedia' = IF vpMedia = "error" THEN "error" ELSE "paused"
    /\ vpLast' = "unmount"
    /\ UNCHANGED <<vpProps, vpIsPlaying, vpShowPlayButton, vpHasPlayedOnce,
                   vpShowPosterImage, vpHideTimers, vpPromises, vpFailed>>
    /\ UNCHANGED vpSeek
    /\ UNCHANGED notVideo

\* onMouseEnter and onMouseLeave of the player.
VpHover ==
    /\ vpMounted
    /\ vpIsHovered' = ~vpIsHovered
    /\ vpLast' = "hover"
    /\ UNCHANGED <<vpMounted, vpProps, vpIsPlaying, vpShowPlayButton, vpHasPlayedOnce,
                   vpShowPosterImage, vpListening, vpAutoTimer, vpHideTimers,
                   vpPromises, vpMedia, vpFailed, vpCurrentTime, vpDuration,
                   vpMediaTime>>
    /\ UNCHANGED notVideo

\* The timeupdate and loadedmetadata events and updateTime.
VpUpdateTime ==
    /\ vpMounted
    /\ vpMedia # "error"
    /\ vpLast' = "timeupdate"
    /\ IF vpListening
       THEN vpCurrentTime' = vpMediaTime /\ vpDuration' = MediaLength
       ELSE UNCHANGED <<vpCurrentTime, vpDuration>>
    /\ UNCHANGED <<vpMounted, vpProps, vpIsPlaying, vpShowPlayButton, vpHasPlayedOnce,
                   vpShowPosterImage, vpListening, vpAutoTimer, vpHideTimers,
                   vpPromises, vpMedia, vpFailed, vpIsHovered, vpMediaTime>>
    /\ UNCHANGED notVideo

\* The media element plays on.
VpMediaProgress ==
    /\ vpMedia = "playing"
    /\ vpMediaTime < MediaLength
    /\ vpMediaTime' = vpMediaTime + 1
    /\ UNCHANGED <<vpLast, vpMounted, vpProps, vpIsPlaying, vpShowPlayButton, vpHasPlayedOnce,
                   vpShowPosterImage, vpListening, vpAutoTimer, vpHideTimers,
                   vpPromises, vpMedia, vpFailed, vpIsHovered, vpCurrentTime,
                   vpDuration>>
    /\ UNCHANGED notVideo

\* handleProgressClick at the fraction at / MediaLength of the bar's width.
VpProgressClick ==
    \E at \in 0..MediaLength :
        /\ vpMounted
        /\ vpLast' = "seek"
        /\ vpMediaTime' = IF vpProps.isStatic \/ vpDuration = 0 THEN vpMediaTime
                          ELSE (at * vpDuration) \div MediaLength
        /\ UNCHANGED <<vpMounted, vpProps, vpIsPlaying, vpShowPlayButton,
                       vpHasPlayedOnce, vpShowPosterImage, vpListening, vpAutoTimer,
                       vpHideTimers, vpPromises, vpMedia, vpFailed, vpIsHovered,
                       vpCurrentTime, vpDuration>>
        /\ UNCHANGED notVideo

NextVideo ==
    \/ VpOnPlay
    \/ VpOnPause
    \/ VpOnPlaying
    \/ VpOnError
    \/ VpPlayRejected
    \/ VpToggle
    \/ VpAutoPlayTimer
    \/ VpHideTimer
    \/ VpHover
    \/ VpUpdateTime
    \/ VpMediaProgress
    \/ VpProgressClick
    \/ VpUnmount

VideoStart == VpInit /\ LogoOff /\ GalOff /\ PinOff /\ AmbiOff /\ SyncOff /\ ClockOff

SpecVideo ==
    /\ VideoStart
    /\ [][NextVideo]_vars

\* C6: from a failure to start playback (an error event or a rejected
\* play()) until the next playing event, the poster image is shown.
C6_PosterShownAfterFailure ==
    (vpMounted /\ vpFailed) => vpShowPosterImage

(***************************************************************************)
(* AmbilightVideo (src/AmbiLight.tsx): the instances on one page and the   *)
(* page-global state of the YouTube IFrame API loader.                     *)
(***************************************************************************)
MaxMounts == 3       \* mounts of ambient-glow instances on the page

AmbInstances == {1, 2}

AmbSources == {"youtube", "url"}

RenderTargets == {"preview", "export"}

\* The state of an instance that is not mounted: nothing is kept.
AmbFresh ==
    [mounted |-> FALSE, youtube |-> FALSE, target |-> "preview",
     polling |-> FALSE, player |-> FALSE, isPlaying |-> FALSE,
     intensity |-> 0, opacity |-> 0, last |-> "none"]

\* The intensity property, in hundredths (the control runs from 0 to 1).
Intensities == {0, 50, 100}

\* The names of the player states that onStateChange reports.
YTStates == [st \in {-1, 0, 1, 2, 3} |->
                CASE st = -1 -> "unstarted" [] st = 0 -> "state0"
                  [] st = 1 -> "state1" [] st = 2 -> "state2"
                  [] st = 3 -> "buffering"]

glowOpacityAlways(isPlaying, intensity) == intensity

\* glowOpacity: the opacity of the glow layer in a render.
glowOpacity(isPlaying, intensity) ==
    LET glowVisible == intensity > 0
    IN  IF glowVisible THEN (IF isPlaying THEN intensity ELSE 0) ELSE 0

\* A render of the instance: the glow layer takes the computed opacity.
AmbRender(r) == [r EXCEPT !.opacity = glowOpacity(r.isPlaying, r.intensity)]

loadYouTubeAPINoFlag(ready, loading, scripts) ==
    IF ready THEN [loading |-> loading, scripts |-> scripts]
    ELSE [loading |-> TRUE, scripts |-> scripts + 1]

\* loadYouTubeAPI: the flag and the number of script tags after the call.
loadYouTubeAPI(ready, loading, scripts) ==
    IF ready THEN [loading |-> loading, scripts |-> scripts]
    ELSE IF loading THEN [loading |-> loading, scripts |-> scripts]
    ELSE [loading |-> TRUE, scripts |-> scripts + 1]

\* The YouTube effect runs past its early returns.
UsesYouTube(source, target) == target \in {"preview", "canvas"} /\ source = "youtube"

AmbInit ==
    /\ ytApiLoading = FALSE
    /\ ytReady = FALSE
    /\ ytScripts = 0
    /\ amb = [i \in AmbInstances |-> AmbFresh]
    /\ ambMounts = 0

\* Mount: the first render and the YouTube effect.
AmbMount ==
    \E i \in AmbInstances, source \in AmbSources, target \in RenderTargets,
       intensity \in Intensities :
        LET yt     == UsesYouTube(source, target)
            loaded == loadYouTubeAPI(ytReady, ytApiLoading, ytScripts)
        IN  /\ ~amb[i].mounted
            /\ ambMounts < MaxMounts
            /\ ambMounts' = ambMounts + 1
            /\ amb' = [amb EXCEPT ![i] =
                          AmbRender([mounted |-> TRUE,
                                     youtube |-> source = "youtube",
                                     target |-> target,
                                     polling |-> yt /\ ~ytReady,
                                     player |-> yt /\ ytReady,
                                     isPlaying |-> FALSE,
                                     intensity |-> intensity,
                                     opacity |-> 0,
                                     last |-> "none"])]
            /\ ytApiLoading' = IF yt /\ ~ytReady THEN loaded.loading ELSE ytApiLoading
            /\ ytScripts' = IF yt /\ ~ytReady THEN loaded.scripts ELSE ytScripts
            /\ UNCHANGED ytReady
            /\ UNCHANGED notAmbi

\* The appended script has run: window.YT.Player exists.
AmbScriptLoaded ==
    /\ ytScripts > 0
    /\ ~ytReady
    /\ ytReady' = TRUE
    /\ UNCHANGED <<ytApiLoading, ytScripts, amb, ambMounts>>
    /\ UNCHANGED notAmbi

\* The 100 ms interval callback of a waiting instance.
AmbPoll ==
    \E i \in AmbInstances :
        /\ amb[i].polling
        /\ amb' = IF ytReady
                  THEN [amb EXCEPT ![i].polling = FALSE, ![i].player = TRUE]
                  ELSE amb
        /\ UNCHANGED <<ytApiLoading, ytReady, ytScripts, ambMounts>>
        /\ UNCHANGED notAmbi

\* onStateChange of the YouTube player.
AmbStateChange ==
    \E i \in AmbInstances, st \in {-1, 0, 1, 2, 3} :
        /\ amb[i].mounted /\ amb[i].player
        /\ amb' = [amb EXCEPT ![i] =
                       AmbRender([@ EXCEPT !.isPlaying =
                                               IF st = 1 THEN TRUE
                                               ELSE IF st = 2 \/ st = 0 THEN FALSE
                                               ELSE @,
                                           !.last = YTStates[st]])]
        /\ UNCHANGED <<ytApiLoading, ytReady, ytScripts, ambMounts>>
        /\ UNCHANGED notAmbi

\* The onPlay, onPause and onEnded handlers of the main video element.
AmbMediaEvent ==
    \E i \in AmbInstances, ev \in {"play", "pause", "ended"} :
        /\ amb[i].mounted /\ ~amb[i].youtube
        /\ amb' = [amb EXCEPT ![i] =
                       AmbRender([@ EXCEPT !.isPlaying = (ev = "play"),
                                           !.last = ev])]
        /\ UNCHANGED <<ytApiLoading, ytReady, ytScripts, ambMounts>>
        /\ UNCHANGED notAmbi

\* The host passes another intensity: the instance renders again.
AmbSetIntensity ==
    \E i \in AmbInstances, intensity \in Intensities :
        /\ amb[i].mounted
        /\ intensity # amb[i].intensity
        /\ amb' = [amb EXCEPT ![i] = AmbRender([@ EXCEPT !.intensity = intensity])]
        /\ UNCHANGED <<ytApiLoading, ytReady, ytScripts, ambMounts>>
        /\ UNCHANGED notAmbi

\* Unmount: the effect cleanup clears the interval; the instance's state is
\* discarded.
AmbUnmount ==
    \E i \in AmbInstances :
        /\ amb[i].mounted
        /\ amb' = [amb EXCEPT ![i] = AmbFresh]
        /\ UNCHANGED <<ytApiLoading, ytReady, ytScripts, ambMounts>>
        /\ UNCHANGED notAmbi

NextAmbi ==
    \/ AmbMount
    \/ AmbScriptLoaded
    \/ AmbPoll
    \/ AmbStateChange
    \/ AmbMediaEvent
    \/ AmbSetIntensity
    \/ AmbUnmount

AmbiStart == AmbInit /\ LogoOff /\ GalOff /\ PinOff /\ VideoOff /\ SyncOff /\ ClockOff

SpecAmbi ==
    /\ AmbiStart
    /\ [][NextAmbi]_vars

C11_GlowFollowsPlayback ==
    \A i \in AmbInstances :
        amb[i].mounted =>
            /\ amb[i].last \in {"play", "state1"} => amb[i].isPlaying
            /\ amb[i].last \in {"pause", "ended", "state2", "state0"} =>
                   ~amb[i].isPlaying
            /\ amb[i].opacity =
                   IF amb[i].isPlaying /\ amb[i].intensity > 0
                   THEN amb[i].intensity ELSE 0

\* A YouTube instance glows at half intensity after state 1 while a file
\* instance at full intensity went dark on its ended event.
C11_Witness ==
    /\ amb[1].mounted /\ amb[1].youtube /\ amb[1].last = "state1"
    /\ amb[1].isPlaying /\ amb[1].intensity = 50 /\ amb[1].opacity = 50
    /\ amb[2].mounted /\ ~amb[2].youtube /\ amb[2].last = "ended"
    /\ amb[2].intensity = 100 /\ amb[2].opacity = 0

(***************************************************************************)
(* PhantomInfiniteGallery: pointer handling.                               *)
(***************************************************************************)
\* C13: while a drag is in progress every pointer move sets offset and
\* targetOffset both to startOffset + (pointer position - press position),
\* and an animation-frame tick leaves the base offset unchanged.
C13_DragTracksPointer ==
    [][/\ (lastEvent' = "move" /\ draggingRef') =>
              \A start \in {startOffsetRef'}, pos \in {lastMoveRef'}, o \in {offset'} :
                  /\ o = [x |-> start.x + (pos.x - pressPosRef.x),
                          y |-> start.y + (pos.y - pressPosRef.y)]
                  /\ targetOffset' = o
       /\ (lastEvent' = "tick" /\ draggingRef) => offset' = offset]_vars

\* A tick during the second drag: the pointer moved the base offset away
\* from the target the loop last saw, and the tick did not ease it back.
C13_Witness ==
    /\ lastEvent = "tick"
    /\ draggingRef /\ isPressingRef
    /\ startOffsetRef # Zero
    /\ offset = VAdd(startOffsetRef, Vec(lastMoveRef.x - pressPosRef.x,
                                         lastMoveRef.y - pressPosRef.y))
    /\ targetOffset = offset
    /\ offset # targetOffsetRef

\* C15: on pointer up (or pointer cancel) inertia becomes active if and
\* only if inertiaEnabled is true and the tracked speed is at least
\* throwMinSpeed; otherwise inertia is inactive and the inertia delta is
\* reset to (0, 0).
C15_ThrowIffFastEnough ==
    [][lastEvent' = "up" =>
           \A v \in {velocityRef} :
               LET fastEnough == /\ props.inertiaEnabled
                                 /\ WLeq(WSq(Px(props.throwMinSpeed)), Hypot2(v))
               IN  /\ inertiaActiveRef' = fastEnough
                   /\ ~fastEnough => inertia' = Zero]_vars

\* A release at 300 px/s or more with a minimum of 80 px/s started inertia.
C15_Witness ==
    /\ lastEvent = "up"
    /\ props.inertiaEnabled /\ props.throwMinSpeed = 80
    /\ inertiaActiveRef
    /\ ~SpeedBelow(velocityRef, Px(300))

\* A step in which a drag starts.
DragStarts == (~draggingRef /\ draggingRef') \/ (~isDragging /\ isDragging')

\* C16: a drag starts only on a pointer move while a pointer is pressed and
\* the pointer is more than DRAG_THRESHOLD (4 px) away from the press
\* position; draggingRef implies isPressingRef in every reachable state; and
\* pointer up always ends the drag.
C16_DragOnlyWhilePressed ==
    /\ [](draggingRef => isPressingRef)
    /\ [][DragStarts =>
              /\ lastEvent' = "move"
              /\ isPressingRef
              /\ \A pos \in {lastMoveRef'} :
                     ~WLeq(Hypot2(Vec(pos.x - pressPosRef.x, pos.y - pressPosRef.y)),
                           WSq(Px(4)))]_vars
    /\ [][lastEvent' = "up" => (~draggingRef' /\ ~isDragging')]_vars

\* The move to the far position started a drag.
C16_Witness ==
    /\ lastEvent = "move"
    /\ isPressingRef /\ draggingRef /\ isDragging /\ ~renderedIsDragging
    /\ pressPosRef = Vec(Px(400), Px(304))
    /\ lastMoveRef = Vec(Px(460), Px(380))

\* C17: the speed of the tracked velocity (the magnitude of velocityRef)
\* never exceeds throwMaxSpeed, in any state reached by pointer moves,
\* pointer up and animation-frame ticks.
C17_SpeedWithinMax ==
    WLeq(Hypot2(velocityRef), WSq(Px(props.throwMaxSpeed)))

\* The press-hold timer's zoom-out, seen from a step: the target size is
\* cellSize * zoomValue and the target offset is the visible offset pinned
\* on the viewport centre, from the cell size that the pointer down saw.
ZoomedOut ==
    \E t \in pressTimers \ pressTimers' :
        \A shown \in {VAdd(offsetRef, inertiaRef)} :
            LET newSize == (props.cellSize \div 100) * props.zoomValue
                centre  == Vec(Px(props.width) \div 2, Px(props.height) \div 2)
            IN  /\ targetCellSize' = newSize
                /\ targetOffset' = computePinnedOffset(t.size, newSize, centre, shown)

\* C18: the press-hold timer zooms out only if the pointer is still pressed
\* and no drag has started when it expires; otherwise it changes nothing.
\* A release leaves no timer pending, so a released press never zooms out,
\* and a pointer down cancels the timer of the previous one: at most one
\* timer is pending, the one of the current press.
C18_ZoomOnlyOnHeldPress ==
    /\ [](/\ Cardinality(pressTimers) <= 1
          /\ \A t \in pressTimers : t.id = pressTimerRef /\ isPressingRef)
    /\ [][lastEvent' = "timer" =>
              \/ isPressingRef /\ ~draggingRef /\ ZoomedOut
              \/ UNCHANGED <<targetCellSize, targetOffset>>]_vars

\* The timer of a second pointer down expired while the press was held: the
\* target size is 140 px and no timer is left.
C18_Witness ==
    /\ lastEvent = "timer"
    /\ pointersDown = 2
    /\ isPressingRef /\ ~draggingRef
    /\ targetCellSize = Px(140)
    /\ pressTimers = {}

\* C20: a pointer down while inertia is active or the inertia delta is not
\* zero commits it: afterwards the inertia delta is (0, 0), inertia is
\* inactive, and offset and targetOffset both equal the offset plus the
\* inertia delta of the last render, so the visible position is the same
\* before and after the pointer down.
C20_PointerDownCommitsInertia ==
    [][(lastEvent' = "down" /\ (inertiaActiveRef \/ inertiaRef # Zero)) =>
           \A shown \in {VAdd(offsetRef, inertiaRef)}, o \in {offset'}, i \in {inertia'} :
               /\ i = Zero
               /\ ~inertiaActiveRef'
               /\ o = shown
               /\ targetOffset' = shown
               /\ VAdd(o, i) = shown]_vars

\* A pointer down caught a coasting grid: the base offset took over the
\* inertia delta that the last render showed.
C20_Witness ==
    /\ lastEvent = "down"
    /\ inertiaRef # Zero
    /\ offset = VAdd(startOffsetRef, inertiaRef)
    /\ targetOffset = offset
    /\ inertia = Zero
    /\ ~inertiaActiveRef

(***************************************************************************)
(* PhantomInfiniteGallery: the host changes the cellSize prop.             *)
(***************************************************************************)
CellSizes == { Px(200), Px(300) }

\* The host passes another cellSize: the component renders, the ref effects
\* copy the state of that render, the loop effect restarts if that render's
\* targetCellSize is new, and the cellSize effect sets targetCellSize and
\* the target offset pinned on the viewport centre.
GalSetCellSize ==
    \E c \in CellSizes \ {props.cellSize} :
        LET restart == renderedTargetCellSize # targetCellSize
            kept    == { [h EXCEPT !.live = FALSE] : h \in CancelFrame(rafPending, raf) }
            id      == FreshId({h.id : h \in kept})
        IN  /\ mounted
            /\ budget # 0
            /\ Spend
            /\ lastEvent' = "cellSize"
            /\ tickDt' = 0
            /\ props' = [props EXCEPT !.cellSize = c]
            /\ inertiaRef' = inertia
            /\ offsetRef' = offset
            /\ targetOffsetRef' = targetOffset
            /\ targetMouseOffsetRef' = targetMouseOffset
            /\ draggingRef' = IF renderedIsDragging # isDragging THEN isDragging
                              ELSE draggingRef
            /\ renderedIsDragging' = isDragging
            /\ renderedCurrentCellSize' = currentCellSize
            /\ renderedTargetCellSize' = targetCellSize
            /\ rafPending' = IF restart
                             THEN kept \cup {[id |-> id, target |-> targetCellSize,
                                              live |-> TRUE]}
                             ELSE rafPending
            /\ raf' = IF restart THEN id ELSE raf
            /\ targetCellSize' = c
            /\ targetOffset' = computePinnedOffset(currentCellSize, c, Pivot(props),
                                                   VAdd(offset, inertia))
            /\ UNCHANGED <<mounted, offset, isDragging, currentCellSize, mouseOffset,
                           targetMouseOffset, inertia, velocityRef, lastMoveRef,
                           inertiaActiveRef, isPressingRef, pressPosRef, startOffsetRef,
                           pressTimerRef, pressTimers, pointersDown>>
            /\ UNCHANGED notGallery

NextGalleryResize ==
    \/ NextGallery
    \/ GalSetCellSize

\* A page with one gallery whose cellSize prop the host may change.
ResizeStart ==
    /\ GalInitWith({GalleryPropsOf(TRUE, 80, 990)}, MaxSteps)
    /\ LogoOff /\ PinOff /\ VideoOff /\ AmbiOff /\ SyncOff /\ ClockOff

SpecGalleryResize ==
    /\ ResizeStart
    /\ [][NextGalleryResize]_vars

\* C19: whenever no pointer is pressed, targetCellSize equals the cellSize
\* prop; a zoomed-out target size is in effect only during a press, under
\* every interleaving of pointer down, pointer up, pointer cancel, timer
\* expiry and cellSize prop changes.
C19_ZoomOnlyDuringPress ==
    mounted =>
        /\ (~isPressingRef \/ pointersDown = 0) => targetCellSize = props.cellSize
        /\ targetCellSize \in
               {props.cellSize} \cup { (c \div 100) * props.zoomValue : c \in CellSizes }

\* The pointer is released after the cellSize prop changed during a press
\* whose timer had zoomed out.
C19_Witness ==
    /\ mounted /\ lastEvent = "up"
    /\ ~isPressingRef /\ pointersDown = 0
    /\ props.cellSize = Px(300)
    /\ targetCellSize = Px(300)
    /\ currentCellSize < Px(200)

(***************************************************************************)
(* AmbilightVideo with a file source (src/AmbiLight.tsx): the listeners    *)
(* that keep the glow video in step with the main video.  Media times are  *)
(* in tenths of a second.                                                  *)
(***************************************************************************)
MaxTime == 6         \* the length of the media, in tenths of a second
MaxGlowPromises == 2 \* play() promises of the glow pending at once

SyncTolerance == 2   \* 0.2 s

syncNoSeek(v, g, allowed) ==
    LET g2   == IF v.paused /\ ~g.paused THEN [g EXCEPT !.paused = TRUE] ELSE g
        asks == ~v.paused /\ g2.paused
    IN  [glow  |-> IF asks /\ allowed THEN [g2 EXCEPT !.paused = FALSE] ELSE g2,
         asked |-> asks]

\* sync: the glow element after the callback, and whether the callback
\* called its play().  play() either starts playback (paused becomes false)
\* or is refused and leaves the element paused; both return a promise.
sync(v, g, allowed) ==
    LET g1   == IF Abs(g.currentTime - v.currentTime) > SyncTolerance
                THEN [g EXCEPT !.currentTime = v.currentTime] ELSE g
        g2   == IF v.paused /\ ~g1.paused THEN [g1 EXCEPT !.paused = TRUE] ELSE g1
        asks == ~v.paused /\ g2.paused
    IN  [glow  |-> IF asks /\ allowed THEN [g2 EXCEPT !.paused = FALSE] ELSE g2,
         asked |-> asks]

\* The state after the first render and the sync effect: both elements are
\* loaded and paused at the start of the media.
SyncInit ==
    /\ syMounted = TRUE
    /\ mainVideo = [currentTime |-> 0, paused |-> TRUE]
    /\ glowVideo = [currentTime |-> 0, paused |-> TRUE]
    /\ syIsPlaying = FALSE
    /\ syPromises = 0
    /\ syAsked = FALSE
    /\ syErrors = 0
    /\ syLast = "mount"

\* The timeupdate event of the main video: the sync callback.
SyncTimeUpdate ==
    \E allowed \in BOOLEAN :
        LET r == sync(mainVideo, glowVideo, allowed)
        IN  /\ syMounted
            /\ r.asked => syPromises < MaxGlowPromises
            /\ glowVideo' = r.glow
            /\ syAsked' = r.asked
            /\ syPromises' = IF r.asked THEN syPromises + 1 ELSE syPromises
            /\ syLast' = "timeupdate"
            /\ UNCHANGED <<syMounted, mainVideo, syIsPlaying, syErrors>>
            /\ UNCHANGED notSync

\* The main video starts to play; its play listener sets isPlaying and
\* calls the glow's play().
SyncPlay ==
    \E allowed \in BOOLEAN :
        /\ syMounted
        /\ mainVideo.paused
        /\ syPromises < MaxGlowPromises
        /\ mainVideo' = [mainVideo EXCEPT !.paused = FALSE]
        /\ syIsPlaying' = TRUE
        /\ glowVideo' = IF allowed THEN [glowVideo EXCEPT !.paused = FALSE]
                        ELSE glowVideo
        /\ syAsked' = TRUE
        /\ syPromises' = syPromises + 1
        /\ syLast' = "play"
        /\ UNCHANGED <<syMounted, syErrors>>
        /\ UNCHANGED notSync

\* The main video is paused; its pause listener clears isPlaying.
SyncPause ==
    /\ syMounted
    /\ ~mainVideo.paused
    /\ mainVideo' = [mainVideo EXCEPT !.paused = TRUE]
    /\ syIsPlaying' = FALSE
    /\ syAsked' = FALSE
    /\ syLast' = "pause"
    /\ UNCHANGED <<syMounted, glowVideo, syPromises, syErrors>>
    /\ UNCHANGED notSync

\* The main video reaches its end: the element pauses and the pause and
\* ended listeners clear isPlaying.
SyncEnded ==
    /\ syMounted
    /\ ~mainVideo.paused
    /\ mainVideo.currentTime = MaxTime
    /\ mainVideo' = [mainVideo EXCEPT !.paused = TRUE]
    /\ syIsPlaying' = FALSE
    /\ syAsked' = FALSE
    /\ syLast' = "ended"
    /\ UNCHANGED <<syMounted, glowVideo, syPromises, syErrors>>
    /\ UNCHANGED notSync

\* Playback: each element that is not paused moves on, at its own pace.
SyncProgress ==
    \E dv \in 0..3, dg \in 0..3 :
        /\ dv > 0 => ~mainVideo.paused /\ mainVideo.currentTime + dv <= MaxTime
        /\ dg > 0 => ~glowVideo.paused /\ glowVideo.currentTime + dg <= MaxTime
        /\ dv + dg > 0
        /\ mainVideo' = [mainVideo EXCEPT !.currentTime = @ + dv]
        /\ glowVideo' = [glowVideo EXCEPT !.currentTime = @ + dg]
        /\ syAsked' = FALSE
        /\ syLast' = "progress"
        /\ UNCHANGED <<syMounted, syIsPlaying, syPromises, syErrors>>
        /\ UNCHANGED notSync

\* The user seeks the main video with its controls.
SyncSeek ==
    \E t \in {0, MaxTime} :
        /\ syMounted
        /\ t # mainVideo.currentTime
        /\ mainVideo' = [mainVideo EXCEPT !.currentTime = t]
        /\ syAsked' = FALSE
        /\ syLast' = "seek"
        /\ UNCHANGED <<syMounted, glowVideo, syIsPlaying, syPromises, syErrors>>
        /\ UNCHANGED notSync

\* A promise returned by the glow's play() rejects: .catch(() => {})
SyncPlayRejected ==
    /\ syPromises > 0
    /\ syPromises' = syPromises - 1
    /\ syAsked' = FALSE
    /\ syLast' = "rejected"
    /\ UNCHANGED <<syMounted, mainVideo, glowVideo, syIsPlaying, syErrors>>
    /\ UNCHANGED notSync

\* Unmount: the cleanup removes the timeupdate listener and the elements
\* leave the document.
SyncUnmount ==
    /\ syMounted
    /\ syMounted' = FALSE
    /\ mainVideo' = [mainVideo EXCEPT !.paused = TRUE]
    /\ glowVideo' = [glowVideo EXCEPT !.paused = TRUE]
    /\ syAsked' = FALSE
    /\ syLast' = "unmount"
    /\ UNCHANGED <<syIsPlaying, syPromises, syErrors>>
    /\ UNCHANGED notSync

NextSync ==
    \/ SyncTimeUpdate
    \/ SyncPlay
    \/ SyncPause
    \/ SyncEnded
    \/ SyncProgress
    \/ SyncSeek
    \/ SyncPlayRejected
    \/ SyncUnmount

SyncStart ==
    SyncInit /\ LogoOff /\ GalOff /\ PinOff /\ VideoOff /\ AmbiOff /\ ClockOff

SpecSync ==
    /\ SyncStart
    /\ [][NextSync]_vars

\* C12: after each timeupdate callback of the main video the glow's
\* currentTime is within 0.2 s of the main video's, the glow is paused if
\* the main video is paused and has been asked to play if the main video is
\* playing; a failing play() of the glow never raises an error.
C12_GlowSynced ==
    /\ syErrors = 0
    /\ syLast = "timeupdate" =>
           /\ Abs(glowVideo.currentTime - mainVideo.currentTime) <= SyncTolerance
           /\ mainVideo.paused => glowVideo.paused
           /\ ~mainVideo.paused => (~glowVideo.paused \/ syAsked)

\* The callback moved a paused glow from the start to the main video's
\* position and asked it to play; the play() was refused.
C12_Witness ==
    /\ syLast = "timeupdate"
    /\ ~mainVideo.paused /\ mainVideo.currentTime = MaxTime
    /\ glowVideo.paused /\ glowVideo.currentTime = MaxTime
    /\ syAsked
    /\ syPromises = MaxGlowPromises

(***************************************************************************)
(* Clock (src/unnamed/part_003) and the widgets that ask the host whether  *)
(* it renders statically.                                                  *)
(***************************************************************************)
MaxWall == 3         \* seconds of wall-clock time

\* The state after the first render and the effect.
ClockInit ==
    /\ ckMounted = TRUE
    /\ ckOnCanvas \in BOOLEAN
    /\ ckNow = 0
    /\ ckInterval = ~ckOnCanvas
    /\ ckWall = 0

\* A second passes while the clock is on the page.
ClockSecond ==
    /\ ckMounted
    /\ ckWall < MaxWall
    /\ ckWall' = ckWall + 1
    /\ UNCHANGED <<ckMounted, ckOnCanvas, ckNow, ckInterval>>
    /\ UNCHANGED notClock

\* The interval callback: setNow(new Date())
ClockInterval ==
    /\ ckInterval
    /\ ckNow' = ckWall
    /\ UNCHANGED <<ckMounted, ckOnCanvas, ckInterval, ckWall>>
    /\ UNCHANGED notClock

\* Unmount: the cleanup clears the interval.
ClockUnmount ==
    /\ ckMounted
    /\ ckMounted' = FALSE
    /\ ckInterval' = FALSE
    /\ UNCHANGED <<ckOnCanvas, ckNow, ckWall>>
    /\ UNCHANGED notClock

NextClock ==
    \/ ClockSecond
    \/ ClockInterval
    \/ ClockUnmount

\* A page with one of the three widgets, in a host whose answer to
\* useIsStaticRenderer() and useIsOnFramerCanvas() stays the same for the
\* life of the page.
HostStart ==
    /\ GalOff /\ PinOff /\ AmbiOff /\ SyncOff
    /\ \/ LogoInit /\ VideoOff /\ ClockOff
       \/ VpInit /\ LogoOff /\ ClockOff
       \/ ClockInit /\ LogoOff /\ VideoOff

NextHost ==
    \/ lpRun > 0 /\ (LogoTimerFire \/ LogoAdvance \/ LogoSetDuration \/ LogoUnmount)
    \/ NextVideo
    \/ NextClock

SpecHost ==
    /\ HostStart
    /\ [][NextHost]_vars

\* The playback state of a video player is what the first render left: no
\* listener, timer or promise exists and the media element was never
\* started or sought.
VideoStill ==
    /\ vpIsPlaying = vpProps.autoPlay
    /\ vpShowPlayButton = ~vpProps.autoPlay
    /\ vpHasPlayedOnce = vpProps.autoPlay
    /\ vpShowPosterImage = vpProps.showPoster
    /\ vpCurrentTime = 0 /\ vpDuration = 0
    /\ ~vpListening /\ ~vpAutoTimer /\ vpHideTimers = 0 /\ vpPromises = 0
    /\ vpMedia \in {"paused", "error"} /\ vpMediaTime = 0

\* C14 as stated: in a static renderer, or on the canvas for the clock, no
\* timer is scheduled and no state of the component ever changes: the
\* preloader's phase stays init, togglePlay and the progress-bar seek do
\* nothing, no media listener or autoplay is set up, and the clock's
\* displayed time stays what it was.
C14_NoStateTransition ==
    /\ lpStatic => lpPhase = "init" /\ lpTimers = {}
    /\ (DOMAIN vpProps # {} /\ vpProps.isStatic) => VideoStill /\ ~vpIsHovered
    /\ ckOnCanvas => ckNow = 0 /\ ~ckInterval

\* C14 as amended: the same, for every state but the video player's hover
\* flag, which follows mouse enter and mouse leave in a static renderer too.
C14_NoPlaybackTransition ==
    /\ lpStatic => lpPhase = "init" /\ lpTimers = {}
    /\ (DOMAIN vpProps # {} /\ vpProps.isStatic) => VideoStill
    /\ ckOnCanvas => ckNow = 0 /\ ~ckInterval

\* A static video player with autoPlay set was hovered and then clicked.
C14_Witness ==
    /\ vpMounted /\ vpProps.isStatic /\ vpProps.autoPlay
    /\ vpIsHovered
    /\ vpLast = "toggle"

\* tick: the velocity times f = Math.pow(throwFriction, dt * 60), before the
\* test of the speed against 1.
Slowed(v, friction, k) ==
    Vec(MulDiv(v.x, Pow(friction, k), Pow(1000, k)),
        MulDiv(v.y, Pow(friction, k), Pow(1000, k)))

\* w has length 0.0001 px/s and the direction of s, both within one unit of
\* rounding; the direction of the zero vector is that of the x axis.
CreepOf(s, w) ==
    IF s = Zero THEN w = Vec(Unit \div 10000, 0)
    ELSE /\ ~SpeedBelow(w, Unit \div 10000 - 1)
         /\ SpeedBelow(w, Unit \div 10000 + 2)
         /\ s.x * w.x >= 0 /\ s.y * w.y >= 0
         /\ Abs(s.x * w.y - s.y * w.x) <= Abs(s.x) + Abs(s.y)

C22_NoCoastingWithoutDrag ==
    [][(lastEvent' = "up" /\ ~draggingRef) =>
           (~inertiaActiveRef' /\ inertia' = Zero)]_vars

(***************************************************************************)
(* PhantomInfiniteGallery: the rendered grid                               *)
(***************************************************************************)
gridSize == 20       \* cells of the rendered block on each axis

\* Grid generation: Math.floor(-offset / cellWithGap) - 5 on one axis, with
\* cellWithGap = currentCellSize.
gridStart(off, size) == ((-off) \div size) - 5

startX == gridStart(offset.x, currentCellSize)

startY == gridStart(offset.y, currentCellSize)

\* Grid generation: where the block is drawn on one axis.  Its first tile
\* has left = start * cellWithGap + offset + mouseOffset + inertia and its
\* last tile ends gridSize cells further, so the block reaches from 0 to
\* the length of the viewport when start is at most -shift / cellWithGap
\* and start + gridSize at least (length - shift) / cellWithGap, with shift
\* the sum of the three translations.
BlockSpans(start, size, shift, length) ==
    /\ start <= ((-shift) \div size)
    /\ start + gridSize >= -((shift - length) \div size)

GridCoversViewport ==
    /\ BlockSpans(startX, currentCellSize,
                  offset.x + mouseOffset.x + inertia.x, Px(props.width))
    /\ BlockSpans(startY, currentCellSize,
                  offset.y + mouseOffset.y + inertia.y, Px(props.height))

\* A gallery of the smallest cells, thrown fast with the least friction the
\* property controls allow, in a viewport of 8 by 6 cells.
ThrowProps ==
    { [GalleryPropsOf(TRUE, 80, 990) EXCEPT !.cellSize = Px(100),
                                            !.throwVelocityScale = 200,
                                            !.throwMaxSpeed = 700] }

MaxGesture == 4      \* pointer events of the throw itself
MaxCoastFrames == 30 \* frames after the throw

\* A throw and what follows it: the pointer goes down, moves and goes up,
\* and while the gallery coasts the loop runs at 20 frames per second (dt at
\* its cap of 0.05) and React renders between two frames.
ThrowGesture ==
    /\ budget > MaxCoastFrames
    /\ (GalPointerDown \/ GalPointerMove \/ GalPointerUp)

ThrowCoast ==
    /\ inertiaActiveRef
    /\ ~Dirty
    /\ GalTick
    /\ tickDt' = 3

NextGalleryThrow ==
    \/ ThrowGesture
    \/ ThrowCoast
    \/ GalCommit

ThrowStart ==
    /\ GalInitWith(ThrowProps, MaxGesture + MaxCoastFrames)
    /\ LogoOff /\ PinOff /\ VideoOff /\ AmbiOff /\ SyncOff /\ ClockOff

SpecGalleryThrow == ThrowStart /\ [][NextGalleryThrow]_vars

\* C23: in every reachable state the rendered 20x20 block of cells, which
\* starts 5 cells before floor(-offset / currentCellSize) on each axis,
\* covers the whole viewport (at most 10 rest-size cells wide and high),
\* also while zoomed out, while coasting and with the parallax applied.
C23_GridCoversViewport ==
    mounted => GridCoversViewport

\* C24: in every reachable state of the video player showPlayButton equals
\* not isPlaying, under any sequence of play, pause, playing and error
\* events and failed play() calls.
C24_PlayButtonIffNotPlaying ==
    vpMounted => (vpShowPlayButton = ~vpIsPlaying)

\* C25: on teardown of the video player all six media listeners are removed
\* and every pending timer is cleared, so once it is unmounted no timer of
\* the instance is pending and none of its callbacks runs, the 50 ms
\* poster-hide timer started by a playing event included.
C25_TeardownClearsAll ==
    (~vpMounted /\ vpLast # "none") =>
        (~vpListening /\ ~vpAutoTimer /\ vpHideTimers = 0 /\ vpLast # "hide")

====
